---------------------------- MODULE Spec2Model ----------------------------
(***************************************************************************)
(* A model of node-pdf-lib: the document object (PDFDocument), the         *)
(* serializer (PDFSerializer), the parser (PDFParser), the security        *)
(* handler (PDFSecurity) and the repair utility (PDFRepair).               *)
(*                                                                         *)
(* A Buffer is a sequence of bytes (0..255), a JavaScript array a          *)
(* sequence, an options object or a metadata object a function from the    *)
(* keys that are present to their values.  An async call is one step: the  *)
(* code under these calls awaits nothing that another call could           *)
(* interleave with.                                                        *)
(***************************************************************************)
EXTENDS Integers, Sequences, FiniteSets, TLC

(***************************************************************************)
(* Bounds of the model.                                                    *)
(***************************************************************************)
\* The longest page list the mutation API builds.
MaxPages == 2
\* The readings of the wall clock (new Date()) are 1..MaxDate.
MaxDate == 2
\* The rotations asked of setRotation lie between -MaxRotation and MaxRotation.
MaxRotation == 45
\* The longest list of page indices handed to an operation on listed pages.
MaxIndices == 2
\* The documents a caller builds, the documents merges add to them, and the
\* longest list of documents handed to a merge.
MaxDocuments == 1
MaxMerged == 1
MaxSources == 2
\* The values accessors returned that a caller holds, and the longest array a
\* caller makes of one.
MaxCopies == 1
MaxEntries == 2
\* The largest maxWorkers option handed to renderPagesParallel.
MaxWorkers == 2
\* The most chunks in which a stream hands out its bytes.
MaxChunks == 3
\* splitDocument: the ranges of a list at most, the page counts up to, and the
\* documents of a result after which the model follows the call no further
MaxRanges == 1
MaxPageCount == 3
MaxParts == 4
\* PDFWebWorker: the tasks posted, the Workers created and the answers a
\* Worker sends a second time, at most
MaxTasks == 2
MaxWebWorkers == 2
MaxRepeats == 1
\* The loads of page content the loader starts, at most
MaxLoads == 3
\* The outline nodes a caller creates and the children of one node, at most
MaxOutlines == 3
MaxChildren == 2

(***************************************************************************)
(* JavaScript values.                                                      *)
(***************************************************************************)
\* null and undefined where an object is expected.
Null == [null |-> TRUE]
Undefined == [undefined |-> TRUE]
\* null where a string is expected; no password or title is this string.
NullStr == "<null>"
\* An object with no keys ({}).
Absent == <<>>

\* o.k || null, for a string option k
StrOrNull(o, k) == IF k \in DOMAIN o /\ o[k] # "" THEN o[k] ELSE NullStr
\* o.k || false, for a boolean option k
BoolOrFalse(o, k) == k \in DOMAIN o /\ o[k]
\* o.k !== false
NotFalse(o, k) == ~(k \in DOMAIN o /\ o[k] = FALSE)
\* { ...a, ...b }
Spread(a, b) == [k \in DOMAIN a \cup DOMAIN b |-> IF k \in DOMAIN b THEN b[k] ELSE a[k]]

\* map.set(key, value) and map.delete(key) on a Map
mapSet(map, key, value) == Spread(map, [k \in {key} |-> value])
mapDelete(map, key) == [k \in DOMAIN map \ {key} |-> map[k]]

\* The outcome of a call: a returned value or a thrown PDFError.
Return(v) == [threw |-> FALSE, value |-> v]

ErrorCodes ==
    [ UNKNOWN_ERROR       |-> "unknown_error",
      FILE_NOT_FOUND      |-> "file_not_found",
      INVALID_PDF         |-> "invalid_pdf",
      PARSE_ERROR         |-> "parse_error",
      RENDER_ERROR        |-> "render_error",
      UNSUPPORTED_FEATURE |-> "unsupported_feature",
      INVALID_PARAMETER   |-> "invalid_parameter",
      PERMISSION_ERROR    |-> "permission_error" ]

\* new PDFError(code, message), thrown
PDFError(code, message) == [threw |-> TRUE, code |-> code, message |-> message]

(***************************************************************************)
(* Buffers.                                                                *)
(***************************************************************************)
\* buffer.slice(start, end)
slice(buffer, start, end) ==
    LET e == IF end > Len(buffer) THEN Len(buffer) ELSE end
    IN  SubSeq(buffer, start + 1, e)

\* buffer.toString("ascii"): Node unsets the highest bit of every byte before
\* it decodes; the string is the sequence of its character codes.
toStringAscii(buffer) == [i \in 1..Len(buffer) |-> buffer[i] % 128]

\* Buffer.concat(list)
RECURSIVE concat(_)
concat(list) == IF list = <<>> THEN <<>> ELSE Head(list) \o concat(Tail(list))

\* Whether pattern occurs in buffer at the 0-based offset at.
OccursAt(buffer, pattern, at) ==
    /\ at >= 0
    /\ at + Len(pattern) <= Len(buffer)
    /\ \A i \in 1..Len(pattern) : buffer[at + i] = pattern[i]

\* The 0-based offsets at which pattern occurs in buffer.
Occurrences(buffer, pattern) ==
    {at \in 0..(Len(buffer) - Len(pattern)) : OccursAt(buffer, pattern, at)}

Max(S) == CHOOSE m \in S : \A n \in S : n <= m
Min(S) == CHOOSE m \in S : \A n \in S : m <= n

IsDigit(byte) == byte >= 48 /\ byte <= 57

\* The number of decimal digits of buffer from the 0-based offset at on.
RECURSIVE DigitRun(_, _)
DigitRun(buffer, at) ==
    IF at < Len(buffer) /\ IsDigit(buffer[at + 1]) THEN 1 + DigitRun(buffer, at + 1) ELSE 0

\* The value of the n decimal digits of buffer from the 0-based offset at on.
RECURSIVE Decimal(_, _, _)
Decimal(buffer, at, n) ==
    IF n = 0 THEN 0 ELSE 10 * Decimal(buffer, at, n - 1) + (buffer[at + n] - 48)

\* The bytes of a natural number written in decimal.
RECURSIVE DecimalBytes(_)
DecimalBytes(n) == IF n < 10 THEN <<48 + n>> ELSE DecimalBytes(n \div 10) \o <<48 + (n % 10)>>

\* "%PDF-"
kwSignature == << 37, 80, 68, 70, 45 >>
\* "%%EOF"
kwEOF == << 37, 37, 69, 79, 70 >>
\* "xref"
kwXref == << 120, 114, 101, 102 >>
\* "startxref"
kwStartxref == << 115, 116, 97, 114, 116, 120, 114, 101, 102 >>
\* " obj"
kwObj == << 32, 111, 98, 106 >>
\* "/Encrypt"
kwEncrypt == << 47, 69, 110, 99, 114, 121, 112, 116 >>
\* "/Filter /Standard"
kwFilterStandard ==
    << 47, 70, 105, 108, 116, 101, 114, 32, 47, 83, 116, 97, 110, 100, 97, 114, 100 >>
\* "/V ", "/R ", "/O ", "/U ", "/P "
kwV == << 47, 86, 32 >>
kwR == << 47, 82, 32 >>
kwO == << 47, 79, 32 >>
kwU == << 47, 85, 32 >>
kwP == << 47, 80, 32 >>
\* "/EncryptMetadata"
kwEncryptMetadata ==
    << 47, 69, 110, 99, 114, 121, 112, 116, 77, 101, 116, 97, 100, 97, 116, 97 >>
\* "trailer"
kwTrailer == << 116, 114, 97, 105, 108, 101, 114 >>

(***************************************************************************)
(* PDFPage and PDFDocument.                                                *)
(***************************************************************************)
\* new PDFPage(options): the page's fields
PDFPage(options) ==
    [ width    |-> IF "width" \in DOMAIN options /\ options.width # 0
                     THEN options.width ELSE 612,
      height   |-> IF "height" \in DOMAIN options /\ options.height # 0
                     THEN options.height ELSE 792,
      rotation |-> IF "rotation" \in DOMAIN options THEN options.rotation ELSE 0,
      content  |-> IF "content" \in DOMAIN options /\ options.content # ""
                     THEN <<options.content>> ELSE <<>> ]

\* The pages the callers of the model add: a default page, an A4 page and a
\* page equal to the one the parser builds.
PageChoices ==
    { PDFPage(Absent),
      PDFPage([width |-> 595, height |-> 842, rotation |-> 90, content |-> "Hello"]),
      PDFPage([width |-> 612, height |-> 792, rotation |-> 0,
               content |-> "Sample page content"]) }

\* The metadata objects the callers of the model set.
MetadataChoices ==
    { Absent,
      [title |-> "Report"],
      [title |-> "Sample PDF", author |-> "PDF.js"] }

VARIABLES
    pages,      \* PDFDocument._pages
    metadata,   \* PDFDocument._metadata
    saved,      \* the Buffers toBuffer has returned to the caller
    security,   \* the PDFSecurity that encrypted the document last (Null: none)
    last,       \* the latest call: its name, its arguments and its outcome
    heap,       \* the objects the callers and the library have created, by reference
    worker,     \* the renderPagesParallel call in progress and its worker threads
    loader,     \* the fields of the PDFProgressiveLoader
    stream,     \* the parseStream call in progress and its Readable
    split,      \* the splitDocument call in progress
    webWorker,  \* the fields of the PDFWebWorker and the promises of its tasks
    writer      \* the writeToStream call in progress and its Writable

\* The state of the document, and the state of the objects around it.
docVars == <<pages, metadata, saved, security>>
callVars == <<split, webWorker, writer>>
otherVars == <<heap, worker, loader, stream, callVars>>

vars == <<pages, metadata, saved, security, last, heap, worker, loader, stream,
          split, webWorker, writer>>

\* new PDFDocument(): no pages, empty metadata
Init ==
    /\ pages = <<>>
    /\ metadata = Absent
    /\ saved = {}
    /\ security = Null
    /\ last = [op |-> "new"]
    /\ heap = <<>>
    /\ worker = [phase |-> "idle"]
    /\ loader = [_document |-> Null, _loadedPages |-> {}, _pagePromises |-> Absent,
                 _aborted |-> FALSE, loads |-> <<>>]
    /\ stream = [phase |-> "idle"]
    /\ split = [phase |-> "idle"]
    /\ webWorker = [_worker |-> Null, _callbacks |-> Absent, _errorCallbacks |-> Absent,
                    _nextTaskId |-> 1, promises |-> <<>>, workers |-> <<>>]
    /\ writer = [phase |-> "idle"]

\* PDFDocument.pageCount
pageCount == Len(pages)

\* The value of array[index]
At(array, index) ==
    IF index >= 0 /\ index < Len(array) THEN array[index + 1] ELSE Undefined

\* getPage with its upper bound check off by one (index > length)
getPage_offByOne(index) ==
    IF index < 0 \/ index > Len(pages) THEN Null ELSE At(pages, index)

\* PDFDocument.getPage(index): the value returned
getPage(index) ==
    IF index < 0 \/ index >= Len(pages) THEN Null ELSE At(pages, index)

\* PDFDocument.addPage(page)
AddPage ==
    /\ Len(pages) < MaxPages
    /\ \E page \in PageChoices : pages' = Append(pages, page)
    /\ last' = [op |-> "addPage"]
    /\ UNCHANGED <<metadata, saved, security, otherVars>>

\* PDFDocument.setMetadata(metadata)
SetMetadata ==
    /\ \E m \in MetadataChoices : metadata' = Spread(Absent, m)
    /\ last' = [op |-> "setMetadata"]
    /\ UNCHANGED <<pages, saved, security, otherVars>>

\* PDFDocument.getPage(index) called with any index around the page list
GetPage ==
    /\ \E index \in -1..(MaxPages + 1) :
          last' = [op |-> "getPage", index |-> index, ret |-> getPage(index)]
    /\ UNCHANGED <<pages, metadata, saved, security, otherVars>>

(***************************************************************************)
(* PDFSerializer.                                                          *)
(***************************************************************************)
\* "%PDF-1.7\n%¥±ë\n" in UTF-8: the header serialize builds and then drops
pdfHeader ==
    << 37, 80, 68, 70, 45, 49, 46, 55, 10, 37, 194, 165, 194, 177, 195, 171, 10 >>

\* "%PDF-1.7\n"
dummyHeader == << 37, 80, 68, 70, 45, 49, 46, 55, 10 >>

\* "1 0 obj\n<< /Type /Catalog /Pages 2 0 R >>\nendobj\n"
dummyObj1 ==
    << 49, 32, 48, 32, 111, 98, 106, 10, 60, 60, 32, 47, 84, 121, 112, 101, 32, 47, 67, 97,
       116, 97, 108, 111, 103, 32, 47, 80, 97, 103, 101, 115, 32, 50, 32, 48, 32, 82, 32, 62,
       62, 10, 101, 110, 100, 111, 98, 106, 10 >>

\* "2 0 obj\n<< /Type /Pages /Kids [3 0 R] /Count 1 >>\nendobj\n"
dummyObj2 ==
    << 50, 32, 48, 32, 111, 98, 106, 10, 60, 60, 32, 47, 84, 121, 112, 101, 32, 47, 80, 97,
       103, 101, 115, 32, 47, 75, 105, 100, 115, 32, 91, 51, 32, 48, 32, 82, 93, 32, 47, 67,
       111, 117, 110, 116, 32, 49, 32, 62, 62, 10, 101, 110, 100, 111, 98, 106, 10 >>

\* "3 0 obj\n<< /Type /Page /Parent 2 0 R /MediaBox [0 0 612 792] /Contents 4 0 R >>\nendobj\n"
dummyObj3 ==
    << 51, 32, 48, 32, 111, 98, 106, 10, 60, 60, 32, 47, 84, 121, 112, 101, 32, 47, 80, 97,
       103, 101, 32, 47, 80, 97, 114, 101, 110, 116, 32, 50, 32, 48, 32, 82, 32, 47, 77, 101,
       100, 105, 97, 66, 111, 120, 32, 91, 48, 32, 48, 32, 54, 49, 50, 32, 55, 57, 50, 93, 32,
       47, 67, 111, 110, 116, 101, 110, 116, 115, 32, 52, 32, 48, 32, 82, 32, 62, 62, 10, 101,
       110, 100, 111, 98, 106, 10 >>

\* "4 0 obj\n<< /Length 44 >>\nstream\nBT\n/F1 24 Tf\n100 700 Td\n(Hello, World!) Tj\nET\nendstream\nendobj\n"
dummyObj4 ==
    << 52, 32, 48, 32, 111, 98, 106, 10, 60, 60, 32, 47, 76, 101, 110, 103, 116, 104, 32, 52,
       52, 32, 62, 62, 10, 115, 116, 114, 101, 97, 109, 10, 66, 84, 10, 47, 70, 49, 32, 50, 52,
       32, 84, 102, 10, 49, 48, 48, 32, 55, 48, 48, 32, 84, 100, 10, 40, 72, 101, 108, 108,
       111, 44, 32, 87, 111, 114, 108, 100, 33, 41, 32, 84, 106, 10, 69, 84, 10, 101, 110, 100,
       115, 116, 114, 101, 97, 109, 10, 101, 110, 100, 111, 98, 106, 10 >>

\* "xref\n0 5\n0000000000 65535 f\n0000000010 00000 n\n0000000056 00000 n\n"
\* "0000000111 00000 n\n0000000212 00000 n\n"
dummyXref ==
    << 120, 114, 101, 102, 10, 48, 32, 53, 10, 48, 48, 48, 48, 48, 48, 48, 48, 48, 48, 32, 54,
       53, 53, 51, 53, 32, 102, 10, 48, 48, 48, 48, 48, 48, 48, 48, 49, 48, 32, 48, 48, 48, 48,
       48, 32, 110, 10, 48, 48, 48, 48, 48, 48, 48, 48, 53, 54, 32, 48, 48, 48, 48, 48, 32,
       110, 10, 48, 48, 48, 48, 48, 48, 48, 49, 49, 49, 32, 48, 48, 48, 48, 48, 32, 110, 10,
       48, 48, 48, 48, 48, 48, 48, 50, 49, 50, 32, 48, 48, 48, 48, 48, 32, 110, 10 >>

\* "trailer\n<< /Size 5 /Root 1 0 R >>\nstartxref\n307\n%%EOF\n"
dummyTrailer ==
    << 116, 114, 97, 105, 108, 101, 114, 10, 60, 60, 32, 47, 83, 105, 122, 101, 32, 53, 32, 47,
       82, 111, 111, 116, 32, 49, 32, 48, 32, 82, 32, 62, 62, 10, 115, 116, 97, 114, 116, 120,
       114, 101, 102, 10, 51, 48, 55, 10, 37, 37, 69, 79, 70, 10 >>

\* The file without its trailer part
dummyPDF_noTrailer ==
    concat(<<dummyHeader, dummyObj1, dummyObj2, dummyObj3, dummyObj4, dummyXref>>)

\* The Buffer.concat([...]) serialize returns
dummyPDF ==
    concat(<<dummyHeader, dummyObj1, dummyObj2, dummyObj3, dummyObj4, dummyXref,
             dummyTrailer>>)

\* new PDFSerializer(options): the serializer's fields
PDFSerializer(options) ==
    [ _compressStreams |-> NotFalse(options, "compressStreams"),
      _encryptDocument |-> BoolOrFalse(options, "encryptDocument"),
      _userPassword    |-> StrOrNull(options, "userPassword"),
      _ownerPassword   |-> StrOrNull(options, "ownerPassword") ]

\* PDFSerializer.createDocumentCatalog(document) and createPages(document)
createDocumentCatalog(docPages, docMetadata) == <<>>
createPages(docPages, docMetadata) == <<>>

\* serialize without the check of the owner password
serialize_noOwnerCheck(serializer, docPages, docMetadata) == Return(dummyPDF)

\* PDFSerializer.serialize(document): the outcome
serialize(serializer, docPages, docMetadata) ==
    LET parts == <<pdfHeader, createDocumentCatalog(docPages, docMetadata),
                   createPages(docPages, docMetadata)>>
    IN  IF serializer._encryptDocument /\ serializer._ownerPassword = NullStr
          THEN PDFError(ErrorCodes.INVALID_PARAMETER,
                        "Owner password is required for encryption")
          ELSE Return(dummyPDF)

\* PDFDocument.toBuffer(options): the outcome for a document with these pages
\* and metadata.  A PDFError of serialize is thrown on as it is.
toBuffer(docPages, docMetadata, options) ==
    LET serializer ==
            PDFSerializer(
                ("compressStreams" :> NotFalse(options, "compress"))
             @@ ("encryptDocument" :> BoolOrFalse(options, "encrypt"))
             @@ (IF "userPassword" \in DOMAIN options
                   THEN "userPassword" :> options.userPassword ELSE Absent)
             @@ (IF "ownerPassword" \in DOMAIN options
                   THEN "ownerPassword" :> options.ownerPassword ELSE Absent))
    IN  serialize(serializer, docPages, docMetadata)

\* The options objects the callers of the model pass to toBuffer.
ToBufferOptions ==
    { c @@ e @@ u @@ o :
        c \in {Absent, "compress" :> FALSE},
        e \in {Absent, "encrypt" :> FALSE, "encrypt" :> TRUE},
        u \in {Absent, "userPassword" :> "user123"},
        o \in {Absent, "ownerPassword" :> "", "ownerPassword" :> "owner456"} }

\* PDFDocument.toBuffer(options); the caller keeps the Buffer it returns
ToBuffer ==
    /\ \E options \in ToBufferOptions :
          LET res == toBuffer(pages, metadata, options)
          IN  /\ last' = [op |-> "toBuffer", options |-> options, res |-> res]
              /\ saved' = IF res.threw THEN saved ELSE saved \cup {res.value}
    /\ UNCHANGED <<pages, metadata, security, otherVars>>

(***************************************************************************)
(* PDFParser.                                                              *)
(***************************************************************************)
\* A PDFDocument as a value: what a call returns when it builds a document.
Document(docPages, docMetadata) == [pages |-> docPages, metadata |-> docMetadata]

\* PDFParser.isPDF(buffer)
isPDF(buffer) ==
    IF Len(buffer) < 5
      THEN FALSE
      ELSE LET signature == toStringAscii(slice(buffer, 0, 5))
           IN  signature = kwSignature

\* PDFParser.parseStructure(buffer, document), on the new document parse
\* hands it; now is the reading of new Date().
parseStructure(buffer, now) ==
    LET page == PDFPage([width |-> 612, height |-> 792, rotation |-> 0,
                         content |-> "Sample page content"])
    IN  Document(<<page>>,
                 Spread(Absent, [title |-> "Sample PDF", author |-> "PDF.js",
                                 creationDate |-> now]))

\* PDFParser.parse(buffer): the outcome
parse(buffer, now) ==
    IF ~isPDF(buffer)
      THEN PDFError(ErrorCodes.INVALID_PDF, "Invalid PDF format")
      ELSE Return(parseStructure(buffer, now))

\* loadPDFFromBuffer(buffer): the outcome; whatever parse throws is wrapped
loadPDFFromBuffer(buffer, now) ==
    LET res == parse(buffer, now)
    IN  IF res.threw
          THEN PDFError(ErrorCodes.PARSE_ERROR, "Could not parse PDF from buffer")
          ELSE res

\* buffer with the byte at the 1-based place i replaced
WithByte(buffer, i, byte) == [buffer EXCEPT ![i] = byte]

\* A file whose startxref offset (999) points nowhere:
\* "%PDF-1.7\n1 0 obj\n<<>>\nendobj\nxref\n0 2\n0000000000 65535 f\n"
\* "0000000009 00000 n\ntrailer\n<< /Size 2 /Root 1 0 R >>\nstartxref\n999\n%%EOF\n"
bufDamaged ==
    << 37, 80, 68, 70, 45, 49, 46, 55, 10, 49, 32, 48, 32, 111, 98, 106, 10, 60, 60, 62, 62,
       10, 101, 110, 100, 111, 98, 106, 10, 120, 114, 101, 102, 10, 48, 32, 50, 10, 48, 48, 48,
       48, 48, 48, 48, 48, 48, 48, 32, 54, 53, 53, 51, 53, 32, 102, 10, 48, 48, 48, 48, 48, 48,
       48, 48, 48, 57, 32, 48, 48, 48, 48, 48, 32, 110, 10, 116, 114, 97, 105, 108, 101, 114,
       10, 60, 60, 32, 47, 83, 105, 122, 101, 32, 50, 32, 47, 82, 111, 111, 116, 32, 49, 32,
       48, 32, 82, 32, 62, 62, 10, 115, 116, 97, 114, 116, 120, 114, 101, 102, 10, 57, 57, 57,
       10, 37, 37, 69, 79, 70, 10 >>

\* The same file with the startxref offset (29) of its xref keyword.
bufIntact ==
    << 37, 80, 68, 70, 45, 49, 46, 55, 10, 49, 32, 48, 32, 111, 98, 106, 10, 60, 60, 62, 62,
       10, 101, 110, 100, 111, 98, 106, 10, 120, 114, 101, 102, 10, 48, 32, 50, 10, 48, 48, 48,
       48, 48, 48, 48, 48, 48, 48, 32, 54, 53, 53, 51, 53, 32, 102, 10, 48, 48, 48, 48, 48, 48,
       48, 48, 48, 57, 32, 48, 48, 48, 48, 48, 32, 110, 10, 116, 114, 97, 105, 108, 101, 114,
       10, 60, 60, 32, 47, 83, 105, 122, 101, 32, 50, 32, 47, 82, 111, 111, 116, 32, 49, 32,
       48, 32, 82, 32, 62, 62, 10, 115, 116, 97, 114, 116, 120, 114, 101, 102, 10, 50, 57, 10,
       37, 37, 69, 79, 70, 10 >>

\* The Buffers the callers of the model hand to the parser and to the repair
\* utility: every prefix of "%PDF-", "%PDF-" with the highest bit of one byte
\* set, "%PDF-" with its first or last byte replaced by "X", and two files.
InputBuffers ==
       { SubSeq(kwSignature, 1, n) : n \in 0..5 }
  \cup { WithByte(kwSignature, i, kwSignature[i] + 128) : i \in 1..5 }
  \cup { WithByte(kwSignature, i, 88) : i \in {1, 5} }
  \cup { bufDamaged, bufIntact }

\* The readings of new Date()
Dates == 1..MaxDate

\* new PDFParser().parse(buffer) on an input Buffer or on one toBuffer returned
Parse ==
    /\ \E buffer \in InputBuffers \cup saved, now \in Dates :
          last' = [op |-> "parse", buffer |-> buffer, res |-> parse(buffer, now)]
    /\ UNCHANGED <<pages, metadata, saved, security, otherVars>>

\* loadPDFFromBuffer(buffer)
LoadPDFFromBuffer ==
    /\ \E buffer \in InputBuffers \cup saved, now \in Dates :
          last' = [op |-> "loadPDFFromBuffer", buffer |-> buffer,
                   res |-> loadPDFFromBuffer(buffer, now)]
    /\ UNCHANGED <<pages, metadata, saved, security, otherVars>>

(***************************************************************************)
(* PDFRepair.                                                              *)
(***************************************************************************)
\* PDFRepair.isPDF(buffer)
repairIsPDF(buffer) ==
    IF Len(buffer) < 5
      THEN FALSE
      ELSE LET signature == toStringAscii(slice(buffer, 0, 5))
           IN  signature = kwSignature

\* PDFRepair.extractMetadata(buffer)
extractMetadata(buffer, now) ==
    [title |-> "Recovered Document", producer |-> "node-pdf-lib Repair",
     creationDate |-> now]

\* PDFRepair.recoverPages(buffer)
recoverPages(buffer) == <<PDFPage(Absent)>>

\* PDFRepair.performRepair(buffer, options, result): the document it returns
\* and the result as it leaves it
performRepair(buffer, options, result, now) ==
    LET meta  == IF NotFalse(options, "recoverMetadata")
                   THEN Spread(Absent, extractMetadata(buffer, now)) ELSE Absent
        r1    == IF NotFalse(options, "recoverMetadata")
                   THEN [result EXCEPT !.recoveredMetadata = TRUE] ELSE result
        found == IF NotFalse(options, "recoverPages") THEN recoverPages(buffer) ELSE <<>>
        r2    == IF NotFalse(options, "recoverPages")
                   THEN [r1 EXCEPT !.recoveredPages = Len(found)] ELSE r1
    IN  IF Len(found) = 0
          THEN [document |-> Document(<<PDFPage(Absent)>>, meta),
                result   |-> [r2 EXCEPT !.warnings =
                                Append(@, "Added blank page as no pages could be recovered")]]
          ELSE [document |-> Document(found, meta), result |-> r2]

\* repairDocument reporting nothing about a file that parses
repairDocument_silent(buffer, options, now) ==
    LET result == [success |-> FALSE, repaired |-> FALSE, recoveredPages |-> 0,
                   recoveredFonts |-> 0, recoveredImages |-> 0,
                   recoveredMetadata |-> FALSE, errors |-> <<>>, warnings |-> <<>>]
    IN  IF ~repairIsPDF(buffer)
          THEN Return([result |->
                         [result EXCEPT !.errors = Append(@, "Not a valid PDF file")]])
          ELSE Return([result |-> [result EXCEPT !.success = TRUE],
                       document |-> parse(buffer, now).value])

\* PDFRepair.repairDocument(buffer, options): the outcome
repairDocument(buffer, options, now) ==
    LET result == [success |-> FALSE, repaired |-> FALSE, recoveredPages |-> 0,
                   recoveredFonts |-> 0, recoveredImages |-> 0,
                   recoveredMetadata |-> FALSE, errors |-> <<>>, warnings |-> <<>>]
    IN  IF ~repairIsPDF(buffer)
          THEN Return([result |->
                         [result EXCEPT !.errors = Append(@, "Not a valid PDF file")]])
          ELSE LET parsed == parse(buffer, now)
               IN  IF ~parsed.threw
                     THEN Return([result |->
                                    [result EXCEPT
                                       !.success = TRUE,
                                       !.warnings =
                                          Append(@, "Document appears to be undamaged")],
                                  document |-> parsed.value])
                     ELSE LET damaged ==
                                  [result EXCEPT !.warnings =
                                     Append(@, "Document is damaged: " \o parsed.message)]
                              repaired == performRepair(buffer, options, damaged, now)
                          IN  Return([result |->
                                        [repaired.result EXCEPT !.success = TRUE,
                                                                !.repaired = TRUE],
                                      document |-> repaired.document])

\* repairPDF(buffer, options)
repairPDF(buffer, options, now) == repairDocument(buffer, options, now)

\* The options objects the callers of the model pass to repairPDF.
RepairOptions ==
    { m @@ p : m \in {Absent, "recoverMetadata" :> FALSE},
               p \in {Absent, "recoverPages" :> FALSE} }

\* repairPDF(buffer, options)
RepairPDF ==
    /\ \E buffer \in InputBuffers \cup saved, options \in RepairOptions, now \in Dates :
          last' = [op |-> "repairPDF", buffer |-> buffer, options |-> options,
                   res |-> repairPDF(buffer, options, now)]
    /\ UNCHANGED <<pages, metadata, saved, security, otherVars>>

\* PDFDocument.save(filePath): toBuffer() with no options, then the Buffer is
\* written to the file; an error of toBuffer is wrapped.
save(docPages, docMetadata) ==
    LET res == toBuffer(docPages, docMetadata, Absent)
    IN  IF res.threw
          THEN PDFError(ErrorCodes.UNKNOWN_ERROR, "Error saving PDF")
          ELSE res

\* PDFDocument.save(filePath); the file's bytes can be loaded afterwards
Save ==
    /\ LET res == save(pages, metadata)
       IN  /\ last' = [op |-> "save", res |-> res]
           /\ saved' = IF res.threw THEN saved ELSE saved \cup {res.value}
    /\ UNCHANGED <<pages, metadata, security, otherVars>>

(***************************************************************************)
(* PDFSecurity.                                                            *)
(***************************************************************************)
\* new PDFSecurity(options): the handler's fields
PDFSecurity(options) ==
    LET user == StrOrNull(options, "userPassword")
    IN  [ _userPassword     |-> user,
          _ownerPassword    |-> IF StrOrNull(options, "ownerPassword") # NullStr
                                  THEN options.ownerPassword
                                  ELSE IF user # NullStr THEN user ELSE "owner",
          _encryptionMethod |-> IF StrOrNull(options, "encryptionMethod") # NullStr
                                  THEN options.encryptionMethod ELSE "aes",
          _encryptMetadata  |-> NotFalse(options, "encryptMetadata") ]

\* PDFSecurity.encrypt(document): the outcome and the document's metadata after
encrypt(handler, docMetadata) ==
    IF handler._ownerPassword = NullStr \/ handler._ownerPassword = ""
      THEN [res      |-> PDFError(ErrorCodes.INVALID_PARAMETER,
                                  "Owner password is required for encryption"),
            metadata |-> docMetadata]
      ELSE LET after == Spread(Spread(Absent, docMetadata),
                               [encrypted |-> TRUE,
                                encryptionMethod |-> handler._encryptionMethod])
           IN  [res |-> Return(after), metadata |-> Spread(Absent, after)]

\* PDFSecurity.decrypt(document, password): the outcome and the document's
\* metadata after
decrypt(handler, docMetadata, password) ==
    LET after == Spread(Spread(Absent, docMetadata), [encrypted |-> FALSE])
    IN  [res |-> Return(after), metadata |-> Spread(Absent, after)]

\* The options objects the callers of the model pass to encryptPDF.
EncryptOptions ==
    { u @@ o @@ m :
        u \in {Absent, "userPassword" :> "", "userPassword" :> "user123"},
        o \in {Absent, "ownerPassword" :> "", "ownerPassword" :> "owner456"},
        m \in {Absent, "encryptionMethod" :> "aes256"} }

\* The passwords the callers of the model pass to decryptPDF.
Passwords == {"", "user123", "owner456", "owner", "wrong"}

\* encryptPDF(document, options): new PDFSecurity(options).encrypt(document)
EncryptPDF ==
    /\ \E options \in EncryptOptions :
          LET handler == PDFSecurity(options)
              done    == encrypt(handler, metadata)
          IN  /\ metadata' = done.metadata
              /\ security' = IF done.res.threw THEN security ELSE handler
              /\ last' = [op |-> "encryptPDF", options |-> options,
                          before |-> metadata, res |-> done.res]
    /\ UNCHANGED <<pages, saved, otherVars>>

\* decryptPDF(document, password): new PDFSecurity().decrypt(document, password)
DecryptPDF ==
    /\ \E password \in Passwords :
          LET done == decrypt(PDFSecurity(Absent), metadata, password)
          IN  /\ metadata' = done.metadata
              /\ last' = [op |-> "decryptPDF", password |-> password,
                          before |-> metadata, res |-> done.res]
    /\ UNCHANGED <<pages, saved, security, otherVars>>

(***************************************************************************)
(* Page operations of the document.                                        *)
(***************************************************************************)
\* array.splice(start, deleteCount, ...items): the array afterwards
splice(array, start, deleteCount, items) ==
    SubSeq(array, 1, start) \o items \o SubSeq(array, start + deleteCount + 1, Len(array))

\* insertPage that refuses the position after the last page
insertPage_noAppend(_pages, index, page) ==
    IF index < 0 \/ index >= Len(_pages)
      THEN [_pages |-> _pages, ret |-> FALSE]
      ELSE [_pages |-> splice(_pages, index, 0, <<page>>), ret |-> TRUE]

\* PDFDocument.insertPage(index, page): the page list afterwards and the
\* value returned
insertPage(_pages, index, page) ==
    IF index < 0 \/ index > Len(_pages)
      THEN [_pages |-> _pages, ret |-> FALSE]
      ELSE [_pages |-> splice(_pages, index, 0, <<page>>), ret |-> TRUE]

\* PDFDocument.removePage(index)
removePage(_pages, index) ==
    IF index < 0 \/ index >= Len(_pages)
      THEN [_pages |-> _pages, ret |-> Null]
      ELSE [_pages |-> splice(_pages, index, 1, <<>>), ret |-> _pages[index + 1]]

\* PDFDocument.replacePage(index, page)
replacePage(_pages, index, page) ==
    IF index < 0 \/ index >= Len(_pages)
      THEN [_pages |-> _pages, ret |-> Null]
      ELSE [_pages |-> [_pages EXCEPT ![index + 1] = page], ret |-> _pages[index + 1]]

\* insertPage called with any index around the page list; a call that would
\* grow the list is made while the list is below MaxPages.
InsertPage ==
    /\ \E index \in -1..(MaxPages + 1), page \in PageChoices :
          LET r == insertPage(pages, index, page)
          IN  /\ Len(r._pages) <= MaxPages
              /\ pages' = r._pages
              /\ last' = [op |-> "insertPage", index |-> index, page |-> page, ret |-> r.ret]
    /\ UNCHANGED <<metadata, saved, security, otherVars>>

\* removePage called with any index around the page list
RemovePage ==
    /\ \E index \in -1..(MaxPages + 1) :
          LET r == removePage(pages, index)
          IN  /\ pages' = r._pages
              /\ last' = [op |-> "removePage", index |-> index, ret |-> r.ret]
    /\ UNCHANGED <<metadata, saved, security, otherVars>>

\* replacePage called with any index around the page list
ReplacePage ==
    /\ \E index \in -1..(MaxPages + 1), page \in PageChoices :
          LET r == replacePage(pages, index, page)
          IN  /\ pages' = r._pages
              /\ last' = [op |-> "replacePage", index |-> index, page |-> page, ret |-> r.ret]
    /\ UNCHANGED <<metadata, saved, security, otherVars>>

(***************************************************************************)
(* Page rotation.                                                          *)
(***************************************************************************)
\* a % b of JavaScript: the remainder has the sign of a
jsRem(a, b) == IF a >= 0 THEN a % b ELSE 0 - ((0 - a) % b)

\* Math.round(a / b) for a >= 0 and b > 0: halves round up
roundDiv(a, b) == (2 * a + b) \div (2 * b)

\* PDFPage.setRotation(rotation): the page afterwards
setRotation(page, rotation) ==
    LET normalized == jsRem(jsRem(rotation, 360) + 360, 360)
    IN  [page EXCEPT !.rotation =
            IF jsRem(normalized, 90) # 0 THEN roundDiv(normalized, 90) * 90 ELSE normalized]

\* The rotations the callers of the model ask for.
Rotations == (0 - MaxRotation)..MaxRotation

\* setRotation called on a page of the document
SetRotation ==
    /\ \E index \in 0..(Len(pages) - 1), rotation \in Rotations :
          /\ pages' = [pages EXCEPT ![index + 1] = setRotation(pages[index + 1], rotation)]
          /\ last' = [op |-> "setRotation", index |-> index]
    /\ UNCHANGED <<metadata, saved, security, otherVars>>

\* The loop of rotatePages over indices
RECURSIVE rotateEach(_, _, _)
rotateEach(_pages, rotation, indices) ==
    IF indices = <<>> THEN _pages
    ELSE LET index == Head(indices)
         IN  IF index >= 0 /\ index < Len(_pages)
               THEN rotateEach(
                      [_pages EXCEPT ![index + 1] =
                          setRotation(_pages[index + 1],
                                      jsRem(_pages[index + 1].rotation + rotation, 360))],
                      rotation, Tail(indices))
               ELSE rotateEach(_pages, rotation, Tail(indices))

\* PDFPageOperations.rotatePages(document, rotation, pageIndices): the pages
\* of the document afterwards.  args holds pageIndices when the caller
\* passed it; an array, empty or not, is truthy.
rotatePages(_pages, rotation, args) ==
    LET indices == IF "pageIndices" \in DOMAIN args
                     THEN args.pageIndices
                     ELSE [i \in 1..Len(_pages) |-> i - 1]
    IN  rotateEach(_pages, rotation, indices)

\* The index lists the callers of the model pass: every list of at most
\* MaxIndices indices around the page list.
IndexLists ==
    UNION { [1..n -> -1..MaxPages] : n \in 0..MaxIndices }

\* rotatePages called without pageIndices or with one of the index lists
RotatePages ==
    /\ \E rotation \in {90, 180, 270},
          args \in {Absent} \cup { [pageIndices |-> l] : l \in IndexLists } :
          /\ pages' = rotatePages(pages, rotation, args)
          /\ last' = [op |-> "rotatePages", rotation |-> rotation, args |-> args]
    /\ UNCHANGED <<metadata, saved, security, otherVars>>

(***************************************************************************)
(* Objects by reference.  heap[ref] is the object of reference ref; an      *)
(* array, a plain object and an instance of a class are objects alike, and  *)
(* two references are the same object exactly when they are equal.          *)
(***************************************************************************)
\* The reference of no object: null.
NoRef == 0

\* The value of an expression that is computed once and then named: the
\* one element of a set of one.
Only(S) == CHOOSE x \in S : TRUE

\* An array literal and an object literal.
Array(items) == [kind |-> "Array", items |-> items]
Object(fields) == [kind |-> "Object", fields |-> fields]

\* The heap with one more object, whose reference is Len(h) + 1.
New(h, object) == Append(h, object)

\* array.push(value) on the array of reference ref
push(h, ref, value) == [h EXCEPT ![ref].items = Append(@, value)]

\* new PDFDocument(options): the field _pages = [] is a new object, and
\* _metadata is the object options.metadata when the caller hands one and a
\* new {} otherwise; the heap afterwards and the reference of the document.
\* options.metadata is the reference of the caller's object.
newPDFDocument(h, options) ==
    LET n     == Len(h)
        given == "metadata" \in DOMAIN options /\ options.metadata # NoRef
        h1    == New(h, Array(<<>>))
        h2    == IF given THEN h1 ELSE New(h1, Object(Absent))
    IN  [ heap |-> New(h2, [kind |-> "PDFDocument", _pages |-> n + 1,
                            _metadata |-> IF given THEN options.metadata ELSE n + 2,
                            _outline |-> NoRef, _form |-> NoRef]),
          ret  |-> Len(h2) + 1 ]

\* new PDFPage(options), options.content being an array or absent: the page
\* takes the array it is handed as its _content, and a new one otherwise
\* (the array of the field initialiser that it then drops is left out).
newPDFPage(h, options) ==
    LET n       == Len(h)
        given   == "content" \in DOMAIN options /\ options.content # NoRef
        h1      == IF given THEN h ELSE New(h, Array(<<>>))
        content == IF given THEN options.content ELSE n + 1
        h2      == New(h1, Array(<<>>))
    IN  [ heap |-> New(h2, [kind |-> "PDFPage",
                            _width |-> IF "width" \in DOMAIN options /\ options.width # 0
                                         THEN options.width ELSE 612,
                            _height |-> IF "height" \in DOMAIN options /\ options.height # 0
                                          THEN options.height ELSE 792,
                            _rotation |-> IF "rotation" \in DOMAIN options
                                            THEN options.rotation ELSE 0,
                            _content |-> content,
                            _annotations |-> Len(h2)]),
          ret  |-> Len(h2) + 1 ]

\* new PDFOutline(options) and new PDFForm()
newPDFOutline(h, title) ==
    [ heap |-> h \o << Array(<<>>),
                       [kind |-> "PDFOutline", _title |-> title, _children |-> Len(h) + 1,
                        _parent |-> NoRef] >>,
      ret  |-> Len(h) + 2 ]
newPDFForm(h) ==
    [ heap |-> h \o << Array(<<>>), [kind |-> "PDFForm", _fields |-> Len(h) + 1] >>,
      ret  |-> Len(h) + 2 ]

\* PDFDocument.addPage, setOutline and setForm; PDFPage.addContent and
\* addAnnotation; PDFOutline.addChild; PDFForm.addField: the heap afterwards
addPageTo(h, document, page) == push(h, h[document]._pages, page)
setOutline(h, document, outline) == [h EXCEPT ![document]._outline = outline]
setForm(h, document, form) == [h EXCEPT ![document]._form = form]
addContent(h, page, content) == push(h, h[page]._content, content)
addAnnotation(h, page, annotation) == push(h, h[page]._annotations, annotation)
addChild(h, outline, child) ==
    [push(h, h[outline]._children, child) EXCEPT ![child]._parent = outline]
addField(h, form, field) == push(h, h[form]._fields, field)

\* The references an object holds.
Refs(object) ==
    (CASE object.kind = "Array" -> {object.items[i] : i \in 1..Len(object.items)}
       [] object.kind = "PDFDocument" ->
            {object._pages, object._metadata, object._outline, object._form}
       [] object.kind = "PDFPage" -> {object._content, object._annotations}
       [] object.kind = "PDFOutline" -> {object._children, object._parent}
       [] object.kind = "PDFForm" -> {object._fields}
       [] OTHER -> {}) \ {NoRef}

\* The objects reachable from the object of reference ref, itself included.
RECURSIVE Reach(_, _, _)
Reach(h, frontier, seen) ==
    IF frontier \subseteq seen THEN seen
    ELSE Only({ Reach(h, next, all) :
                  next \in {UNION {Refs(h[r]) : r \in frontier \ seen}},
                  all \in {seen \cup frontier} })
Reachable(h, ref) == Reach(h, {ref}, {})

\* The documents the callers of the model build: with pages or none, with an
\* outline of one child or none, with a form of one field or none.  A
\* document with pages has one bare page of the default size, or (items) an
\* A4 page turned by 90 degrees that holds a content item and an annotation,
\* followed by a bare page of the default size.
DocumentShapes ==
    { s \in [page : BOOLEAN, items : BOOLEAN, outline : BOOLEAN, form : BOOLEAN] :
        s.items => s.page }

\* The pages of a document of shape s: b holds the heap and the reference of
\* the document, before and after.
buildPage(b, s) ==
    LET p  == newPDFPage(b.heap, IF s.items
                                   THEN [width |-> 595, height |-> 842, rotation |-> 90]
                                   ELSE Absent)
        t  == New(p.heap, [kind |-> "PDFText", text |-> "Hello"])
        a  == New(addContent(t, p.ret, Len(t)), [kind |-> "PDFAnnotation", contents |-> "note"])
        pi == IF s.items THEN addAnnotation(a, p.ret, Len(a)) ELSE p.heap
        q  == newPDFPage(addPageTo(pi, b.ret, p.ret), Absent)
    IN  IF ~s.page THEN b
        ELSE IF s.items THEN [b EXCEPT !.heap = addPageTo(q.heap, b.ret, q.ret)]
        ELSE [b EXCEPT !.heap = addPageTo(pi, b.ret, p.ret)]

\* The outline of a document of shape s, and its form.
buildOutline(b, s) ==
    LET o == newPDFOutline(b.heap, "Contents")
        c == newPDFOutline(o.heap, "Chapter 1")
    IN  IF s.outline
          THEN [b EXCEPT !.heap = setOutline(addChild(c.heap, o.ret, c.ret), b.ret, o.ret)]
          ELSE b
buildForm(b, s) ==
    LET f  == newPDFForm(b.heap)
        ff == New(f.heap, [kind |-> "PDFFormField", name |-> "name", value |-> ""])
    IN  IF s.form THEN [b EXCEPT !.heap = setForm(addField(ff, f.ret, Len(ff)), b.ret, f.ret)]
        ELSE b

\* The calls with which a caller builds a document of shape s: new
\* PDFDocument(), or new PDFDocument({ metadata: { title: "Report" } }) for a
\* document that gets a page, then addPage(new PDFPage()) with addContent and
\* addAnnotation, setOutline(new PDFOutline(..)) with addChild, and
\* setForm(new PDFForm()) with addField.
buildDocument(h, s) ==
    Only({ buildForm(b3, s) :
             b3 \in { buildOutline(b2, s) :
                        b2 \in { buildPage(b1, s) :
                                   b1 \in { IF s.page
                                              THEN newPDFDocument(
                                                     New(h, Object([title |-> "Report"])),
                                                     [metadata |-> Len(h) + 1])
                                              ELSE newPDFDocument(h, Absent) } } } })

\* The references of the documents in the heap.
Documents(h) == {ref \in 1..Len(h) : h[ref].kind = "PDFDocument"}

\* A caller builds a document.
NewDocument ==
    /\ Cardinality(Documents(heap)) < MaxDocuments
    /\ \E s \in DocumentShapes :
          \E b \in {buildDocument(heap, s)} :
              /\ heap' = b.heap
              /\ last' = [op |-> "new PDFDocument", ret |-> b.ret]
    /\ UNCHANGED <<docVars, worker, loader, stream, callVars>>

(***************************************************************************)
(* Merging documents.                                                      *)
(***************************************************************************)
\* A clonePage that hands the new page the content alone
clonePage_contentOnly(h, page) ==
    Only({ [ heap |-> [np.heap EXCEPT ![np.heap[np.ret]._annotations].items =
                          @ \o h[h[page]._annotations].items],
             ret  |-> np.ret ] :
             np \in { newPDFPage(New(h, Array(h[h[page]._content].items)),
                                 [content |-> Len(h) + 1]) } })

\* PDFMerger.clonePage(page): page.content is a new array of the same items,
\* which the new page takes as its _content; the annotations of the page are
\* added to the new page one by one.
clonePage(h, page) ==
    Only({ [ heap |-> [np.heap EXCEPT ![np.heap[np.ret]._annotations].items =
                          @ \o h[h[page]._annotations].items],
             ret  |-> np.ret ] :
             np \in { newPDFPage(New(h, Array(h[h[page]._content].items)),
                                 [width |-> h[page]._width, height |-> h[page]._height,
                                  rotation |-> h[page]._rotation, content |-> Len(h) + 1]) } })

\* The loop of merge over the pages of document from page i on
RECURSIVE mergePages(_, _, _, _)
mergePages(h, mergedDocument, document, i) ==
    IF i >= Len(h[h[document]._pages].items) THEN h
    ELSE Only({ mergePages(addPageTo(c.heap, mergedDocument, c.ret), mergedDocument,
                           document, i + 1) :
                  c \in {clonePage(h, h[h[document]._pages].items[i + 1])} })

\* The steps of merge for one document after its pages: the title of the
\* first document that has one, the outline and the form when the options
\* keep them and the merged document has none yet.
mergeTitle(h, mergedDocument, document) ==
    LET mm == h[h[mergedDocument]._metadata].fields
        dm == h[h[document]._metadata].fields
    IN  IF "title" \notin DOMAIN mm /\ "title" \in DOMAIN dm /\ dm.title # ""
          THEN [New(h, Object(Spread(mm, [title |-> dm.title])))
                  EXCEPT ![mergedDocument]._metadata = Len(h) + 1]
          ELSE h
mergeOutline(h, mergedDocument, document, options) ==
    IF BoolOrFalse(options, "keepOutlines") /\ h[document]._outline # NoRef
       /\ h[mergedDocument]._outline = NoRef
      THEN setOutline(h, mergedDocument, h[document]._outline)
      ELSE h
mergeForm(h, mergedDocument, document, options) ==
    IF BoolOrFalse(options, "keepFormFields") /\ h[document]._form # NoRef
       /\ h[mergedDocument]._form = NoRef
      THEN setForm(h, mergedDocument, h[document]._form)
      ELSE h

\* The loop of merge over the documents
RECURSIVE mergeEach(_, _, _, _)
mergeEach(h, mergedDocument, documents, options) ==
    IF documents = <<>> THEN h
    ELSE Only({ mergeEach(h4, mergedDocument, Tail(documents), options) :
                  h4 \in { mergeForm(h3, mergedDocument, Head(documents), options) :
                    h3 \in { mergeOutline(h2, mergedDocument, Head(documents), options) :
                      h2 \in { mergeTitle(h1, mergedDocument, Head(documents)) :
                        h1 \in { mergePages(h, mergedDocument, Head(documents), 0) } } } } })

\* PDFMerger.merge(options) of a merger of documents: the heap afterwards and
\* the outcome
merge(h, documents, options) ==
    IF Len(documents) = 0
      THEN [heap |-> h,
            res  |-> PDFError(ErrorCodes.INVALID_PARAMETER, "No documents to merge")]
      ELSE Only({ [heap |-> mergeEach(m.heap, m.ret, documents, options),
                   res  |-> Return(m.ret)] : m \in {newPDFDocument(h, Absent)} })

\* mergePDFs(documents, options)
mergePDFs(h, documents, options) == merge(h, documents, options)

\* The option objects handed to mergePDFs.
MergeOptions ==
    { Absent, [keepOutlines |-> TRUE], [keepFormFields |-> TRUE],
      [keepOutlines |-> TRUE, keepFormFields |-> TRUE, keepAnnotations |-> TRUE] }

\* mergePDFs called with a list of at most MaxSources of the documents there
\* are, while the merged documents are fewer than MaxMerged.
MergePDFs ==
    /\ \E n \in 0..MaxSources :
          \E documents \in [1..n -> Documents(heap)], options \in MergeOptions :
             \E r \in {mergePDFs(heap, documents, options)} :
                 /\ Cardinality(Documents(r.heap)) <= MaxDocuments + MaxMerged
                 /\ heap' = r.heap
                 /\ last' = [op |-> "mergePDFs", documents |-> documents,
                             options |-> options, res |-> r.res]
    /\ UNCHANGED <<docVars, worker, loader, stream, callVars>>

(***************************************************************************)
(* Accessors, and what a caller does to the value an accessor returned.    *)
(***************************************************************************)
\* [...array]: the heap with a new array of the same items, and its reference
spreadArray(h, array) == [heap |-> New(h, Array(h[array].items)), ret |-> Len(h) + 1]

\* an accessor that hands out the internal array itself
getPages_internal(h, document) == [heap |-> h, ret |-> h[document]._pages]

\* PDFDocument.getPages(), PDFPage.content, PDFPage.annotations,
\* PDFForm.fields, PDFOutline.children
getPages(h, document) == spreadArray(h, h[document]._pages)
get_content(h, page) == spreadArray(h, h[page]._content)
get_annotations(h, page) == spreadArray(h, h[page]._annotations)
get_fields(h, form) == spreadArray(h, h[form]._fields)
get_children(h, outline) == spreadArray(h, h[outline]._children)

\* PDFDocument.metadata: { ...this._metadata }
get_metadata(h, document) ==
    [heap |-> New(h, Object(Spread(Absent, h[h[document]._metadata].fields))),
     ret  |-> Len(h) + 1]

\* The references of the objects of a kind, and of the objects that no
\* document reaches: the values accessors returned to the caller.
OfKind(h, kind) == {ref \in 1..Len(h) : h[ref].kind = kind}
Owned(h) == UNION {Reachable(h, document) : document \in Documents(h)}
Returned(h) == (1..Len(h)) \ Owned(h)

\* A caller has read an accessor of the object target and got r.ret.
Got(accessor, target, r) ==
    /\ heap' = r.heap
    /\ last' = [op |-> "get", accessor |-> accessor, target |-> target, ret |-> r.ret]

\* A caller reads an accessor of an object, while it holds fewer than
\* MaxCopies returned values.
GetMetadata ==
    /\ Cardinality(Returned(heap)) < MaxCopies
    /\ \E target \in OfKind(heap, "PDFDocument") :
          Got("metadata", target, get_metadata(heap, target))
    /\ UNCHANGED <<docVars, worker, loader, stream, callVars>>

GetPages ==
    /\ Cardinality(Returned(heap)) < MaxCopies
    /\ \E target \in OfKind(heap, "PDFDocument") :
          Got("getPages", target, getPages(heap, target))
    /\ UNCHANGED <<docVars, worker, loader, stream, callVars>>

GetContent ==
    /\ Cardinality(Returned(heap)) < MaxCopies
    /\ \E target \in OfKind(heap, "PDFPage") :
          Got("content", target, get_content(heap, target))
    /\ UNCHANGED <<docVars, worker, loader, stream, callVars>>

GetAnnotations ==
    /\ Cardinality(Returned(heap)) < MaxCopies
    /\ \E target \in OfKind(heap, "PDFPage") :
          Got("annotations", target, get_annotations(heap, target))
    /\ UNCHANGED <<docVars, worker, loader, stream, callVars>>

GetFields ==
    /\ Cardinality(Returned(heap)) < MaxCopies
    /\ \E target \in OfKind(heap, "PDFForm") :
          Got("fields", target, get_fields(heap, target))
    /\ UNCHANGED <<docVars, worker, loader, stream, callVars>>

GetChildren ==
    /\ Cardinality(Returned(heap)) < MaxCopies
    /\ \E target \in OfKind(heap, "PDFOutline") :
          Got("children", target, get_children(heap, target))
    /\ UNCHANGED <<docVars, worker, loader, stream, callVars>>

\* What a caller does to the value the latest accessor call returned: adds an
\* entry (push(null), or author = "me"), removes one (pop(), or delete
\* title), reassigns one ([0] = null, or title = "changed").
Changed(how) ==
    /\ last.op \in {"get", "change"}
    /\ LET value == heap[last.ret]
       IN  \/ /\ value.kind = "Array"
              /\ CASE how = "add" ->
                        /\ Len(value.items) < MaxEntries
                        /\ heap' = push(heap, last.ret, NoRef)
                   [] how = "remove" ->
                        /\ value.items # <<>>
                        /\ heap' = [heap EXCEPT ![last.ret].items =
                                       SubSeq(@, 1, Len(@) - 1)]
                   [] how = "reassign" ->
                        /\ value.items # <<>>
                        /\ heap' = [heap EXCEPT ![last.ret].items[1] = NoRef]
           \/ /\ value.kind = "Object"
              /\ CASE how = "add" ->
                        /\ "author" \notin DOMAIN value.fields
                        /\ heap' = [heap EXCEPT ![last.ret].fields =
                                       Spread(@, [author |-> "me"])]
                   [] how = "remove" ->
                        /\ "title" \in DOMAIN value.fields
                        /\ heap' = [heap EXCEPT ![last.ret].fields =
                                       [k \in DOMAIN @ \ {"title"} |-> @[k]]]
                   [] how = "reassign" ->
                        /\ "title" \in DOMAIN value.fields
                        /\ heap' = [heap EXCEPT ![last.ret].fields["title"] = "changed"]
    /\ last' = [last EXCEPT !.op = "change"]
    /\ UNCHANGED <<docVars, worker, loader, stream, callVars>>

CallerAdds == Changed("add")
CallerRemoves == Changed("remove")
CallerReassigns == Changed("reassign")

(***************************************************************************)
(* Rendering pages in worker threads.                                      *)
(***************************************************************************)
\* The sequences with the entries of s in every order.
Orders(s) ==
    { [i \in 1..Len(s) |-> s[f[i]]] :
        f \in {g \in [1..Len(s) -> 1..Len(s)] : \A i, j \in 1..Len(s) : g[i] = g[j] => i = j} }

\* The image of a page: what a worker makes of the snapshot it was sent.
rendering(pageData) ==
    [image |-> [width |-> pageData.width, height |-> pageData.height,
                rotation |-> pageData.rotation, content |-> pageData.content]]

\* The message a rendering worker posts for the page data it was started
\* with: one result, tagged with the page index, for every page, in an order
\* of its choosing.
workerMessages(data) ==
    Orders([i \in 1..Len(data) |-> [index |-> data[i].index, buffer |-> rendering(data[i])]])

\* results.sort((a, b) => a.index - b.index): a stable sort by index
RECURSIVE sortByIndex(_)
sortByIndex(results) ==
    IF results = <<>> THEN <<>>
    ELSE LET rest == sortByIndex(SubSeq(results, 1, Len(results) - 1))
             r    == results[Len(results)]
             k    == Cardinality({i \in 1..Len(rest) : rest[i].index <= r.index})
         IN  SubSeq(rest, 1, k) \o <<r>> \o SubSeq(rest, k + 1, Len(rest))

\* The first part of renderPagesParallel(document, options), up to the start
\* of the workers: the page indices asked for, the number of workers, and
\* for every worker the snapshots of its pages (page i of the request goes
\* to worker i % numWorkers); or the PDFError for an index with no page.
startRendering(docPages, options, cpus) ==
    LET pageIndices == IF "pageIndices" \in DOMAIN options
                         THEN options.pageIndices
                         ELSE [i \in 1..Len(docPages) |-> i - 1]
        maxWorkers  == IF "maxWorkers" \in DOMAIN options /\ options.maxWorkers # 0
                         THEN options.maxWorkers
                         ELSE IF cpus - 1 > 1 THEN cpus - 1 ELSE 1
        numWorkers  == IF maxWorkers < Len(pageIndices) THEN maxWorkers ELSE Len(pageIndices)
        valid(index) == index >= 0 /\ index < Len(docPages)
        pagesData   == [i \in 1..Len(pageIndices) |->
                          LET page == docPages[pageIndices[i] + 1]
                          IN  [index |-> pageIndices[i], width |-> page.width,
                               height |-> page.height, rotation |-> page.rotation,
                               content |-> page.content]]
        mine(w)     == {i \in 1..Len(pageIndices) : (i - 1) % numWorkers = w - 1}
        pick(S, k)  == CHOOSE i \in S : Cardinality({j \in S : j < i}) = k - 1
    IN  IF \E i \in 1..Len(pageIndices) : ~valid(pageIndices[i])
          THEN [threw |-> TRUE,
                error |-> PDFError(ErrorCodes.INVALID_PARAMETER, "Page index is out of bounds")]
          ELSE [threw |-> FALSE,
                pageIndices |-> pageIndices,
                workerData |-> [w \in 1..numWorkers |->
                                  [k \in 1..Cardinality(mine(w)) |-> pagesData[pick(mine(w), k)]]]]

\* The last part of renderPagesParallel: the results of the workers, in the
\* order of the workers, flattened, sorted by index, and their buffers.
collectRendering(results) ==
    LET flatResults == sortByIndex(concat(results))
    IN  [i \in 1..Len(flatResults) |-> flatResults[i].buffer]

\* The option objects handed to renderPagesParallel.
RenderOptions ==
    { Spread(a, b) : a \in {Absent} \cup { [pageIndices |-> l] : l \in IndexLists },
                     b \in {Absent} \cup { [maxWorkers |-> n] : n \in 1..MaxWorkers } }

\* renderPagesParallel is called on the document, on a machine of 1 to
\* MaxWorkers + 1 processors: it throws for an index with no page, and
\* otherwise starts its workers.
RenderPagesParallel ==
    /\ worker.phase = "idle"
    /\ \E options \in RenderOptions, cpus \in 1..(MaxWorkers + 1) :
          LET s == startRendering(pages, options, cpus)
          IN  IF s.threw
                THEN /\ worker' = worker
                     /\ last' = [op |-> "renderPagesParallel", options |-> options,
                                 res |-> s.error]
                ELSE /\ worker' = [phase |-> "running", options |-> options,
                                   pageIndices |-> s.pageIndices,
                                   workerData |-> s.workerData,
                                   results |-> [w \in 1..Len(s.workerData) |-> Null]]
                     /\ last' = [op |-> "runWorker"]
    /\ UNCHANGED <<docVars, heap, loader, stream, callVars>>

\* A worker posts its message: its promise resolves with the results.
WorkerMessage ==
    /\ worker.phase = "running"
    /\ \E w \in 1..Len(worker.workerData) :
          /\ worker.results[w] = Null
          /\ \E message \in workerMessages(worker.workerData[w]) :
                worker' = [worker EXCEPT !.results[w] = [message |-> message]]
    /\ last' = [op |-> "message"]
    /\ UNCHANGED <<docVars, heap, loader, stream, callVars>>

\* A worker has an error, or exits with a code that is not 0, before it has
\* posted: its promise rejects, and with it the call.
WorkerError ==
    /\ worker.phase = "running"
    /\ \E w \in 1..Len(worker.workerData) : worker.results[w] = Null
    /\ worker' = [phase |-> "idle"]
    /\ last' = [op |-> "renderPagesParallel", options |-> worker.options,
                res |-> PDFError(ErrorCodes.UNKNOWN_ERROR, "Worker error")]
    /\ UNCHANGED <<docVars, heap, loader, stream, callVars>>

\* Every worker has posted: Promise.all resolves and the call returns.
RenderPagesReturn ==
    /\ worker.phase = "running"
    /\ \A w \in 1..Len(worker.workerData) : worker.results[w] # Null
    /\ worker' = [phase |-> "idle"]
    /\ last' = [op |-> "renderPagesParallel", options |-> worker.options,
                pageIndices |-> worker.pageIndices,
                res |-> Return(collectRendering(
                          [w \in 1..Len(worker.workerData) |-> worker.results[w].message]))]
    /\ UNCHANGED <<docVars, heap, loader, stream, callVars>>

(***************************************************************************)
(* The progressive loader.                                                 *)
(***************************************************************************)
\* a >= b of JavaScript for a number a and b a number or undefined: false
\* when b is undefined
jsGE(a, b) == IF b = Undefined THEN FALSE ELSE a >= b

\* _parseDocumentStructure(buffer): an object with no members
parseDocumentStructure == Object(Absent)

\* The pageCount of a document of the loader: none for the object without
\* members.
loaderPageCount(document) ==
    IF "pageCount" \in DOMAIN document.fields THEN document.fields.pageCount ELSE Undefined

\* PDFProgressiveLoader.load(source) for a source of bytes
LoaderLoad ==
    /\ loader' = [loader EXCEPT !._aborted = FALSE, !._document = parseDocumentStructure]
    /\ last' = [op |-> "load"]
    /\ UNCHANGED <<docVars, heap, worker, stream, callVars>>

\* loadPage without the look into _pagePromises
loadPage_noLookup(l, pageIndex) ==
    IF l._document = Null
      THEN [loader |-> l,
            res |-> PDFError(ErrorCodes.INVALID_PARAMETER, "Document not loaded")]
    ELSE IF pageIndex < 0 \/ jsGE(pageIndex, loaderPageCount(l._document))
      THEN [loader |-> l,
            res |-> PDFError(ErrorCodes.INVALID_PARAMETER, "Page index is out of bounds")]
    ELSE IF pageIndex \in l._loadedPages
      THEN [loader |-> l,
            res |-> [threw |-> TRUE, code |-> "TypeError",
                     message |-> "getPage is not a function"]]
    ELSE [loader |-> [l EXCEPT
                        !.loads = Append(@, [pageIndex |-> pageIndex, state |-> "pending"]),
                        !._pagePromises = mapSet(@, pageIndex, Len(l.loads) + 1)],
          res |-> [threw |-> FALSE, started |-> TRUE, promise |-> Len(l.loads) + 1]]

\* PDFProgressiveLoader.loadPage(pageIndex) to its await: it throws without a
\* document and for an index out of bounds, fails for a loaded page of a
\* document without getPage, returns the promise of a load under way, and
\* otherwise starts to load the content of the page.  loads holds the calls
\* of _loadPageContent in their order and what has become of each;
\* _pagePromises maps a page index to the promise of one of them.
loadPage(l, pageIndex) ==
    IF l._document = Null
      THEN [loader |-> l,
            res |-> PDFError(ErrorCodes.INVALID_PARAMETER, "Document not loaded")]
    ELSE IF pageIndex < 0 \/ jsGE(pageIndex, loaderPageCount(l._document))
      THEN [loader |-> l,
            res |-> PDFError(ErrorCodes.INVALID_PARAMETER, "Page index is out of bounds")]
    ELSE IF pageIndex \in l._loadedPages
      THEN [loader |-> l,
            res |-> [threw |-> TRUE, code |-> "TypeError",
                     message |-> "getPage is not a function"]]
    ELSE IF pageIndex \in DOMAIN l._pagePromises
      THEN [loader |-> l,
            res |-> [threw |-> FALSE, started |-> FALSE,
                     promise |-> l._pagePromises[pageIndex]]]
    ELSE [loader |-> [l EXCEPT
                        !.loads = Append(@, [pageIndex |-> pageIndex, state |-> "pending"]),
                        !._pagePromises = mapSet(@, pageIndex, Len(l.loads) + 1)],
          res |-> [threw |-> FALSE, started |-> TRUE, promise |-> Len(l.loads) + 1]]

\* loadPage called with an index around the page list, while fewer than
\* MaxLoads loads have been started or the call starts none
LoadPage ==
    /\ \E pageIndex \in -1..MaxPages :
          \E r \in {loadPage(loader, pageIndex)} :
             /\ Len(r.loader.loads) <= MaxLoads
             /\ loader' = r.loader
             /\ last' = [op |-> "loadPage", pageIndex |-> pageIndex, res |-> r.res]
    /\ UNCHANGED <<docVars, heap, worker, stream, callVars>>

\* The loads under way
Pending(l) == {id \in 1..Len(l.loads) : l.loads[id].state = "pending"}

\* The rest of loadPage, once the content of the page has come: the page
\* counts as loaded and the promise kept for its index is dropped.
PageLoaded ==
    /\ \E id \in Pending(loader) :
          /\ loader' = [loader EXCEPT
                          !.loads[id].state = "resolved",
                          !._loadedPages = @ \cup {loader.loads[id].pageIndex},
                          !._pagePromises = mapDelete(@, loader.loads[id].pageIndex)]
          /\ last' = [op |-> "pageLoaded", pageIndex |-> loader.loads[id].pageIndex]
    /\ UNCHANGED <<docVars, heap, worker, stream, callVars>>

\* The rest of loadPage when the content of the page fails to come: the
\* promise kept for its index is dropped and the error goes to the caller.
PageLoadFailed ==
    /\ \E id \in Pending(loader) :
          /\ loader' = [loader EXCEPT
                          !.loads[id].state = "rejected",
                          !._pagePromises = mapDelete(@, loader.loads[id].pageIndex)]
          /\ last' = [op |-> "pageLoadFailed", pageIndex |-> loader.loads[id].pageIndex]
    /\ UNCHANGED <<docVars, heap, worker, stream, callVars>>

\* PDFProgressiveLoader.abort()
Abort ==
    /\ loader' = [loader EXCEPT !._aborted = TRUE]
    /\ last' = [op |-> "abort"]
    /\ UNCHANGED <<docVars, heap, worker, stream, callVars>>

\* PDFProgressiveLoader.clearCache()
ClearCache ==
    /\ loader' = [loader EXCEPT !._loadedPages = {}]
    /\ last' = [op |-> "clearCache"]
    /\ UNCHANGED <<docVars, heap, worker, stream, callVars>>

(***************************************************************************)
(* Parsing from a stream.                                                  *)
(***************************************************************************)
\* The chunks in which a Readable hands out buffer when it cuts it at the
\* offsets of cuts.
RECURSIVE Chunks(_, _)
Chunks(buffer, cuts) ==
    IF cuts = {} THEN (IF buffer = <<>> THEN <<>> ELSE <<buffer>>)
    ELSE LET c == Max(cuts)
         IN  Chunks(SubSeq(buffer, 1, c), cuts \ {c}) \o <<SubSeq(buffer, c + 1, Len(buffer))>>

\* The streams the callers of the model hand to parseStream: a PDF file, five
\* bytes that are no PDF signature, and no byte at all, in at most MaxChunks
\* chunks.
StreamSources ==
    UNION { { Chunks(buffer, cuts) :
                cuts \in {c \in SUBSET {2, 5, 9} :
                            Cardinality(c) < MaxChunks /\ \A offset \in c : offset < Len(buffer)} }
            : buffer \in {bufIntact, WithByte(kwSignature, 1, 88), <<>>} }

\* a 'data' handler that puts the chunk in front of the others
onData_unshift(s, chunk) ==
    [s EXCEPT !.chunks = <<chunk>> \o @,
              !.bytesRead = @ + Len(chunk),
              !.progress = IF "onProgress" \in DOMAIN s.options
                             THEN Append(@, s.bytesRead + Len(chunk)) ELSE @]

\* stream.on("data", chunk => ...): the chunk is kept, counted and reported
onData(s, chunk) ==
    [s EXCEPT !.chunks = Append(@, chunk),
              !.bytesRead = @ + Len(chunk),
              !.progress = IF "onProgress" \in DOMAIN s.options
                             THEN Append(@, s.bytesRead + Len(chunk)) ELSE @]

\* PDFStreaming.parseStream(stream, options), loadPDFFromStream: the handlers
\* are set on a stream that has yet to hand out its chunks
ParseStream ==
    /\ stream.phase # "flowing"
    /\ \E source \in StreamSources, options \in {Absent, [onProgress |-> TRUE]} :
          stream' = [phase |-> "flowing", options |-> options, pending |-> source,
                     delivered |-> <<>>, chunks |-> <<>>, bytesRead |-> 0,
                     progress |-> <<>>, parsed |-> <<>>]
    /\ last' = [op |-> "parseStream"]
    /\ UNCHANGED <<docVars, heap, worker, loader, callVars>>

\* The stream hands out its next chunk: 'data'
StreamData ==
    /\ stream.phase = "flowing"
    /\ stream.pending # <<>>
    /\ stream' = [onData(stream, Head(stream.pending))
                    EXCEPT !.pending = Tail(@),
                           !.delivered = Append(@, Head(stream.pending))]
    /\ last' = [op |-> "data"]
    /\ UNCHANGED <<docVars, heap, worker, loader, callVars>>

\* The stream has handed out all its chunks: 'end'.  The chunks are joined
\* and parsed, and the promise settles with what the parser returns or
\* throws.
StreamEnd ==
    /\ stream.phase = "flowing"
    /\ stream.pending = <<>>
    /\ \E now \in Dates :
          LET buffer == concat(stream.chunks)
          IN  /\ stream' = [stream EXCEPT !.phase = "ended", !.parsed = Append(@, buffer)]
              /\ last' = [op |-> "loadPDFFromStream", res |-> parse(buffer, now)]
    /\ UNCHANGED <<docVars, heap, worker, loader, callVars>>

\* The stream fails: 'error', after which it hands out nothing and does not
\* end.  The promise rejects.
StreamError ==
    /\ stream.phase = "flowing"
    /\ stream' = [stream EXCEPT !.phase = "errored"]
    /\ last' = [op |-> "loadPDFFromStream",
                res |-> PDFError(ErrorCodes.PARSE_ERROR, "Error reading PDF stream")]
    /\ UNCHANGED <<docVars, heap, worker, loader, callVars>>

(***************************************************************************)
(* Splitting a document.  splitDocument awaits nothing, so nothing else    *)
(* runs between two turns of its loops; the model follows the call one     *)
(* turn of an outer loop at a time.                                        *)
(***************************************************************************)
\* PDFPageOperations.clonePage(page): a new page of the size and rotation of
\* page, to which every content item of page is added in turn
opsClonePage(page) ==
    [PDFPage([width |-> page.width, height |-> page.height, rotation |-> page.rotation])
       EXCEPT !.content = page.content]

\* The inner loop: for (i = start; i <= end; i++) the clone of getPage(i),
\* when there is such a page, is added to the new document.
RECURSIVE clonePages(_, _, _)
clonePages(docPages, i, end) ==
    IF i > end THEN <<>>
    ELSE (IF At(docPages, i) # Undefined /\ i >= 0 /\ i < Len(docPages)
            THEN <<opsClonePage(At(docPages, i))>> ELSE <<>>)
         \o clonePages(docPages, i + 1, end)

\* Math.floor(a / b), b not 0
floorDiv(a, b) == IF b > 0 THEN a \div b ELSE (0 - a) \div (0 - b)

\* new PDFDocument({ metadata: { ...document.metadata, title: `${title ||
\* "Document"} - ${what} ${number}` } }) with the pages added to it
newDoc(docMetadata, what, number, newPages) ==
    Document(newPages,
             Spread(docMetadata,
                    [title |-> << IF StrOrNull(docMetadata, "title") = NullStr
                                    THEN "Document" ELSE docMetadata.title,
                                  what, number >>]))

\* The last page of the part that begins at start, with its bound one too far
partEnd_inclusive(start, count, n) == Min({start + count, n - 1})

\* Math.min(start + pageCount - 1, document.pageCount - 1), count being the
\* pageCount of the options and n the pageCount of the document
partEnd(start, count, n) == Min({start + count - 1, n - 1})

\* The options handed to splitDocument: every mode, alone and with its
\* parameter; ranges around the page list, in order and inverted; page
\* counts from -1 on.
SplitOptions ==
    { [mode |-> "single"], [mode |-> "ranges"], [mode |-> "every"] }
    \cup { [mode |-> "ranges", ranges |-> ranges] :
             ranges \in UNION { [1..n -> [start : -1..MaxPages, end : -1..MaxPages]] :
                                  n \in 0..MaxRanges } }
    \cup { [mode |-> "every", pageCount |-> n] : n \in -1..MaxPageCount }

\* The phases of a call that has not ended.
SplitRunning == {"single", "ranges", "every"}

\* splitDocument(document, options), and splitPDF, up to its first loop: the
\* branch taken, or the throw of the last branch.  ranges is truthy when
\* given; pageCount is truthy when given and not 0.
SplitDocument ==
    /\ split.phase \notin SplitRunning
    /\ \E options \in SplitOptions :
          split' =
            IF options.mode = "single"
              THEN [phase |-> "single", options |-> options, i |-> 0, result |-> <<>>]
            ELSE IF options.mode = "ranges" /\ "ranges" \in DOMAIN options
              THEN [phase |-> "ranges", options |-> options, k |-> 0, result |-> <<>>]
            ELSE IF options.mode = "every" /\ "pageCount" \in DOMAIN options
                    /\ options.pageCount # 0
              THEN [phase |-> "every", options |-> options, start |-> 0, result |-> <<>>]
            ELSE [phase |-> "threw", options |-> options,
                  res |-> PDFError(ErrorCodes.INVALID_PARAMETER,
                                   "Invalid split mode or missing required parameters")]
    /\ last' = [op |-> "splitDocument"]
    /\ UNCHANGED <<docVars, heap, worker, loader, stream, webWorker, writer>>

\* One turn of for (let i = 0; i < document.pageCount; i++), or its end and
\* the return of result
SplitSingle ==
    /\ split.phase = "single"
    /\ split' =
         IF split.i < Len(pages)
           THEN [split EXCEPT
                   !.i = @ + 1,
                   !.result = @ \o (IF getPage(split.i) # Null
                                      THEN << newDoc(metadata, "Page", split.i + 1,
                                                     <<opsClonePage(getPage(split.i))>>) >>
                                      ELSE <<>>)]
           ELSE [phase |-> "returned", options |-> split.options,
                 res |-> Return(split.result)]
    /\ last' = [op |-> "splitDocument"]
    /\ UNCHANGED <<docVars, heap, worker, loader, stream, webWorker, writer>>

\* One turn of for (const range of options.ranges), or its end and the
\* return of result
SplitRanges ==
    /\ split.phase = "ranges"
    /\ split' =
         IF split.k < Len(split.options.ranges)
           THEN LET range == split.options.ranges[split.k + 1]
                    start == Max({0, range.start})
                    end   == Min({Len(pages) - 1, range.end})
                IN  [split EXCEPT
                       !.k = @ + 1,
                       !.result = @ \o (IF start <= end
                                          THEN << newDoc(metadata, "Pages",
                                                         <<start + 1, end + 1>>,
                                                         clonePages(pages, start, end)) >>
                                          ELSE <<>>)]
           ELSE [phase |-> "returned", options |-> split.options,
                 res |-> Return(split.result)]
    /\ last' = [op |-> "splitDocument"]
    /\ UNCHANGED <<docVars, heap, worker, loader, stream, webWorker, writer>>

\* One turn of for (let start = 0; start < document.pageCount; start +=
\* pageCount), or its end and the return of result; the model follows the
\* loop while result holds fewer than MaxParts documents.
SplitEvery ==
    /\ split.phase = "every"
    /\ Len(split.result) < MaxParts
    /\ split' =
         IF split.start < Len(pages)
           THEN [split EXCEPT
                   !.start = @ + split.options.pageCount,
                   !.result =
                      Append(@, newDoc(metadata, "Part",
                                       floorDiv(split.start, split.options.pageCount) + 1,
                                       clonePages(pages, split.start,
                                                  partEnd(split.start,
                                                          split.options.pageCount,
                                                          Len(pages)))))]
           ELSE [phase |-> "returned", options |-> split.options,
                 res |-> Return(split.result)]
    /\ last' = [op |-> "splitDocument"]
    /\ UNCHANGED <<docVars, heap, worker, loader, stream, webWorker, writer>>

\* The caller adds a page to the document between two calls of
\* splitDocument, never during one.
AddPageBetweenSplits ==
    /\ split.phase \notin SplitRunning
    /\ AddPage

(***************************************************************************)
(* PDFWebWorker.  webWorker holds the fields of the PDFWebWorker, the       *)
(* promises _postTask has returned, in the order of the calls, and the      *)
(* Workers initialize has created; _worker is null or the index of one of   *)
(* them.  A Worker runs the script at workerUrl:                            *)
(* it answers a task it has received with a message of type "result" or     *)
(* "error" that carries the taskId of the task, in any order; it may send   *)
(* an answer again; its handler may throw instead of answering, which       *)
(* raises an error event on the Worker.                                     *)
(***************************************************************************)
\* resolve(value) or reject(error) called on the promise of index p by the
\* handler of a message of taskId: the first call settles the promise, a
\* later one leaves its state as it is.
settle(promises, p, state, taskId) ==
    [promises EXCEPT ![p] = [@ EXCEPT !.state = IF @ = "pending" THEN state ELSE @,
                                      !.by = Append(@, taskId)]]

\* _postTask that takes the next id without moving on to the one after
postTask_sameId(w, type) ==
    LET taskId == ToString(w._nextTaskId)
        p      == Len(w.promises) + 1
    IN  [w EXCEPT
           !.promises = Append(@, [taskId |-> taskId, type |-> type,
                                   state |-> "pending", by |-> <<>>]),
           !._callbacks = mapSet(@, taskId, p),
           !._errorCallbacks = mapSet(@, taskId, p),
           !.workers[w._worker.index].inbox = @ \cup {taskId}]

\* _postTask(type, data) with a Worker: the new promise, whose resolve and
\* reject go into the two maps under String(this._nextTaskId++), and the
\* message posted to the Worker
postTask(w, type) ==
    LET taskId == ToString(w._nextTaskId)
        p      == Len(w.promises) + 1
    IN  [w EXCEPT
           !._nextTaskId = @ + 1,
           !.promises = Append(@, [taskId |-> taskId, type |-> type,
                                   state |-> "pending", by |-> <<>>]),
           !._callbacks = mapSet(@, taskId, p),
           !._errorCallbacks = mapSet(@, taskId, p),
           !.workers[w._worker.index].inbox = @ \cup {taskId}]

\* this._worker.onmessage(event) of the Worker of index i, event.data being
\* data
onmessage(w, i, data) ==
    IF data.type = "init"
      THEN [w EXCEPT !.workers[i].init = IF @ = "pending" THEN "resolved" ELSE @]
    ELSE IF data.type = "result"
      THEN IF data.taskId \in DOMAIN w._callbacks
             THEN [w EXCEPT
                     !.promises = settle(@, w._callbacks[data.taskId], "resolved",
                                         data.taskId),
                     !._callbacks = mapDelete(@, data.taskId),
                     !._errorCallbacks = mapDelete(@, data.taskId)]
             ELSE w
    ELSE IF data.type = "error"
      THEN IF data.taskId \in DOMAIN w._errorCallbacks
             THEN [w EXCEPT
                     !.promises = settle(@, w._errorCallbacks[data.taskId], "rejected",
                                         data.taskId),
                     !._callbacks = mapDelete(@, data.taskId),
                     !._errorCallbacks = mapDelete(@, data.taskId)]
             ELSE w
    ELSE w

\* this._worker.onerror(error) of the Worker of index i: reject of the
\* promise of initialize
onerror(w, i) ==
    [w EXCEPT !.workers[i].init = IF @ = "pending" THEN "rejected" ELSE @]

\* The Workers that run
Alive(w) == {i \in 1..Len(w.workers) : w.workers[i].alive}

\* initialize(): a new Worker, its two handlers, and the message
\* { type: "init" } posted to it
Initialize ==
    /\ Len(webWorker.workers) < MaxWebWorkers
    /\ webWorker' = [webWorker EXCEPT
                       !.workers = Append(@, [alive |-> TRUE, init |-> "pending",
                                              inbox |-> {}, answered |-> {},
                                              repeats |-> 0]),
                       !._worker = [index |-> Len(webWorker.workers) + 1]]
    /\ last' = [op |-> "initialize"]
    /\ UNCHANGED <<docVars, heap, worker, loader, stream, split, writer>>

\* renderPage, extractText or extractImages: _postTask, which throws without
\* a Worker
PostTask ==
    /\ webWorker._nextTaskId <= MaxTasks
    /\ \E type \in {"renderPage", "extractText", "extractImages"} :
          IF webWorker._worker = Null
            THEN /\ last' = [op |-> type, res |-> [threw |-> TRUE,
                                                   message |-> "Worker not initialized"]]
                 /\ UNCHANGED webWorker
            ELSE /\ webWorker' = postTask(webWorker, type)
                 /\ last' = [op |-> type, res |-> Return(Len(webWorker.promises) + 1)]
    /\ UNCHANGED <<docVars, heap, worker, loader, stream, split, writer>>

\* A Worker that runs answers the init message.
WorkerInit ==
    /\ \E i \in Alive(webWorker) :
          /\ webWorker.workers[i].init = "pending"
          /\ webWorker' = onmessage(webWorker, i, [type |-> "init"])
    /\ last' = [op |-> "message"]
    /\ UNCHANGED <<docVars, heap, worker, loader, stream, split, writer>>

\* A Worker that runs answers a task it has received and not answered.
WorkerAnswers ==
    /\ \E i \in Alive(webWorker) :
          \E taskId \in webWorker.workers[i].inbox, type \in {"result", "error"} :
             webWorker' =
               [onmessage(webWorker, i, [taskId |-> taskId, type |-> type])
                  EXCEPT !.workers[i].inbox = @ \ {taskId},
                         !.workers[i].answered = @ \cup {taskId}]
    /\ last' = [op |-> "message"]
    /\ UNCHANGED <<docVars, heap, worker, loader, stream, split, writer>>

\* A Worker that runs sends an answer to a task it has answered before.
WorkerRepeats ==
    /\ \E i \in Alive(webWorker) :
          /\ webWorker.workers[i].repeats < MaxRepeats
          /\ \E taskId \in webWorker.workers[i].answered, type \in {"result", "error"} :
                webWorker' =
                  [onmessage(webWorker, i, [taskId |-> taskId, type |-> type])
                     EXCEPT !.workers[i].repeats = @ + 1]
    /\ last' = [op |-> "message"]
    /\ UNCHANGED <<docVars, heap, worker, loader, stream, split, writer>>

\* The handler of a Worker that runs throws on a task it has received: the
\* task gets no answer, and the Worker raises an error event.
WorkerRaises ==
    /\ \E i \in Alive(webWorker) :
          \E taskId \in webWorker.workers[i].inbox :
             webWorker' = [onerror(webWorker, i) EXCEPT !.workers[i].inbox = @ \ {taskId}]
    /\ last' = [op |-> "error"]
    /\ UNCHANGED <<docVars, heap, worker, loader, stream, split, writer>>

\* terminate(): the Worker stops at once and sends nothing more
Terminate ==
    /\ webWorker' =
         IF webWorker._worker # Null
           THEN [webWorker EXCEPT !.workers[webWorker._worker.index].alive = FALSE,
                                  !._worker = Null]
           ELSE webWorker
    /\ last' = [op |-> "terminate"]
    /\ UNCHANGED <<docVars, heap, worker, loader, stream, split, writer>>

(***************************************************************************)
(* Writing to a stream.  writer holds the writeToStream call in progress:  *)
(* the locals of the call, the chunks it has handed to stream.write, what   *)
(* the callbacks of these writes have reported, the calls of stream.end and *)
(* the state of the promise it returned.                                    *)
(***************************************************************************)
\* The options writeToStream hands on to toBuffer
toBufferOptionsOf(options) ==
    [k \in DOMAIN options \cap {"compress", "encrypt", "userPassword", "ownerPassword"}
       |-> options[k]]

\* writeChunk that cuts every chunk from the start of the buffer
writeChunk_fromStart(w) ==
    LET end   == Min({w.bytesWritten + w.chunkSize, w.totalBytes})
        chunk == slice(w.buffer, 0, end)
    IN  [w EXCEPT
           !.phase = "written",
           !.bytesWritten = end,
           !.progress = IF BoolOrFalse(w.options, "onProgress")
                          THEN Append(@, <<end, w.totalBytes>>) ELSE @,
           !.chunks = Append(@, chunk),
           !.last = ~(end < w.totalBytes)]

\* writeChunk(): the next chunk is cut from the buffer, onProgress is told,
\* and the chunk goes to stream.write with the callback of a chunk that has
\* successors or with that of the last chunk
writeChunk(w) ==
    LET end   == Min({w.bytesWritten + w.chunkSize, w.totalBytes})
        chunk == slice(w.buffer, w.bytesWritten, end)
    IN  [w EXCEPT
           !.phase = "written",
           !.bytesWritten = end,
           !.progress = IF BoolOrFalse(w.options, "onProgress")
                          THEN Append(@, <<end, w.totalBytes>>) ELSE @,
           !.chunks = Append(@, chunk),
           !.last = ~(end < w.totalBytes)]

\* The chunk sizes the callers of the model ask for: 0, and sizes that cut
\* the Buffer of toBuffer into three chunks, two chunks and one.
ChunkSizes == {0, 200, 228, Len(dummyPDF)}

\* The options objects handed to writeToStream.
WriteOptions ==
    { Absent, [onProgress |-> TRUE, chunkSize |-> 200], [encrypt |-> TRUE],
      [encrypt |-> TRUE, ownerPassword |-> "owner456", chunkSize |-> 228] }
    \cup { [chunkSize |-> n] : n \in ChunkSizes }

\* PDFStreaming.writeToStream(document, stream, options) up to the return of
\* its promise: toBuffer, whose PDFError rejects the call, then the first
\* writeChunk
WriteToStream ==
    /\ writer.phase \in {"idle", "done"}
    /\ \E options \in WriteOptions :
          \E res \in {toBuffer(pages, metadata, toBufferOptionsOf(options))} :
             writer' =
               IF res.threw
                 THEN [phase |-> "done", options |-> options, buffer |-> <<>>,
                       chunkSize |-> 0, totalBytes |-> 0, bytesWritten |-> 0,
                       progress |-> <<>>, chunks |-> <<>>, acks |-> <<>>, last |-> FALSE,
                       ended |-> 0, promise |-> "rejected", error |-> res]
                 ELSE writeChunk(
                        [phase |-> "called", options |-> options, buffer |-> res.value,
                         chunkSize |-> IF "chunkSize" \in DOMAIN options
                                            /\ options.chunkSize # 0
                                         THEN options.chunkSize ELSE 65536,
                         totalBytes |-> Len(res.value), bytesWritten |-> 0,
                         progress |-> <<>>, chunks |-> <<>>, acks |-> <<>>, last |-> FALSE,
                         ended |-> 0, promise |-> "pending", error |-> Null])
    /\ last' = [op |-> "writeToStream"]
    /\ UNCHANGED <<docVars, heap, worker, loader, stream, split, webWorker>>

\* The stream calls the callback of the write under way, with an error or
\* without: with an error the promise is rejected (and once more, to no
\* effect, by the handler of the 'error' event the failed write raises);
\* without, the callback of the last chunk ends the stream and resolves the
\* promise, and that of any other chunk has writeChunk run at the next tick.
WriteCallback ==
    /\ writer.phase = "written"
    /\ \E error \in BOOLEAN :
          writer' =
            IF error
              THEN [writer EXCEPT
                      !.phase = "done", !.acks = Append(@, "error"),
                      !.promise = IF @ = "pending" THEN "rejected" ELSE @,
                      !.error = PDFError(ErrorCodes.UNKNOWN_ERROR, "Error writing to stream")]
            ELSE IF writer.last
              THEN [writer EXCEPT
                      !.phase = "done", !.acks = Append(@, "ok"),
                      !.ended = @ + 1,
                      !.promise = IF @ = "pending" THEN "resolved" ELSE @]
            ELSE [writer EXCEPT !.phase = "tick", !.acks = Append(@, "ok")]
    /\ last' = [op |-> "write callback"]
    /\ UNCHANGED <<docVars, heap, worker, loader, stream, split, webWorker>>

\* process.nextTick(writeChunk) comes due
NextTick ==
    /\ writer.phase = "tick"
    /\ writer' = writeChunk(writer)
    /\ last' = [op |-> "writeChunk"]
    /\ UNCHANGED <<docVars, heap, worker, loader, stream, split, webWorker>>

(***************************************************************************)
(* The outline tree.                                                       *)
(***************************************************************************)
\* array.indexOf(value): the first index at which value stands, or -1
indexOf(items, value) ==
    IF \E k \in 1..Len(items) : items[k] = value
      THEN Min({k \in 1..Len(items) : items[k] = value}) - 1
      ELSE -1

\* PDFOutline.removeChild(child): the heap afterwards and the value returned
removeChild(h, outline, child) ==
    LET index == indexOf(h[h[outline]._children].items, child)
    IN  IF index # -1
          THEN [heap |-> [h EXCEPT
                            ![h[outline]._children].items = splice(@, index, 1, <<>>),
                            ![child]._parent = NoRef],
                ret  |-> TRUE]
          ELSE [heap |-> h, ret |-> FALSE]

\* The outline nodes there are.
Outlines(h) == OfKind(h, "PDFOutline")

\* A caller creates an outline node.
NewOutline ==
    /\ Cardinality(Outlines(heap)) < MaxOutlines
    /\ \E title \in {"Bookmarks"} :
          \E o \in {newPDFOutline(heap, title)} :
             /\ heap' = o.heap
             /\ last' = [op |-> "new PDFOutline", ret |-> o.ret]
    /\ UNCHANGED <<docVars, worker, loader, stream, callVars>>

\* outline.addChild(child) for two nodes there are, while outline has fewer
\* than MaxChildren children
AddChild ==
    /\ \E outline \in Outlines(heap), child \in Outlines(heap) :
          /\ Len(heap[heap[outline]._children].items) < MaxChildren
          /\ heap' = addChild(heap, outline, child)
          /\ last' = [op |-> "addChild", outline |-> outline, child |-> child]
    /\ UNCHANGED <<docVars, worker, loader, stream, callVars>>

\* outline.removeChild(child) for two nodes there are
RemoveChild ==
    /\ \E outline \in Outlines(heap), child \in Outlines(heap) :
          \E r \in {removeChild(heap, outline, child)} :
             /\ heap' = r.heap
             /\ last' = [op |-> "removeChild", outline |-> outline, child |-> child,
                         ret |-> r.ret]
    /\ UNCHANGED <<docVars, worker, loader, stream, callVars>>

(***************************************************************************)
(* Specifications.                                                         *)
(***************************************************************************)
\* The document and the serializer.
Next == AddPage \/ SetMetadata \/ GetPage \/ ToBuffer

Spec == Init /\ [][Next]_vars

\* Saving a document and loading files.
NextLoad == AddPage \/ SetMetadata \/ Save \/ Parse \/ LoadPDFFromBuffer

SpecLoad == Init /\ [][NextLoad]_vars

\* Repairing files.
NextRepair == Save \/ RepairPDF

SpecRepair == Init /\ [][NextRepair]_vars

\* Encrypting and decrypting a document.
NextSecurity == SetMetadata \/ EncryptPDF \/ DecryptPDF

SpecSecurity == Init /\ [][NextSecurity]_vars

\* Adding, inserting, removing and replacing pages.
NextPages == AddPage \/ InsertPage \/ RemovePage \/ ReplacePage

SpecPages == Init /\ [][NextPages]_vars

\* Setting the rotation of pages.
NextRotation == AddPage \/ SetRotation

SpecRotation == Init /\ [][NextRotation]_vars

\* Rotating the pages of a document.
NextRotatePages == AddPage \/ RotatePages

SpecRotatePages == Init /\ [][NextRotatePages]_vars

\* Building and merging documents.
NextMerge == NewDocument \/ MergePDFs

SpecMerge == Init /\ [][NextMerge]_vars

\* Reading accessors and changing what they returned.
NextAccessors ==
    \/ NewDocument
    \/ GetMetadata \/ GetPages \/ GetContent \/ GetAnnotations \/ GetFields \/ GetChildren
    \/ CallerAdds \/ CallerRemoves \/ CallerReassigns

SpecAccessors == Init /\ [][NextAccessors]_vars

\* Rendering the pages of a document in worker threads.
NextWorker ==
    AddPage \/ RenderPagesParallel \/ WorkerMessage \/ WorkerError \/ RenderPagesReturn

SpecWorker == Init /\ [][NextWorker]_vars

\* Loading pages progressively.
NextLoader == LoaderLoad \/ LoadPage \/ PageLoaded \/ Abort \/ ClearCache

SpecLoader == Init /\ [][NextLoader]_vars

\* The loader with loads of page content that fail as well
NextLoading ==
    LoaderLoad \/ LoadPage \/ PageLoaded \/ PageLoadFailed \/ Abort \/ ClearCache

SpecLoading == Init /\ [][NextLoading]_vars

\* Loading a document from a stream.
NextStream == ParseStream \/ StreamData \/ StreamEnd \/ StreamError

SpecStream == Init /\ [][NextStream]_vars


\* Splitting a document; and the same with every loop of splitDocument
\* running on while it can, as code that awaits nothing does
NextSplit ==
    AddPageBetweenSplits \/ SplitDocument \/ SplitSingle \/ SplitRanges \/ SplitEvery

SpecSplit == Init /\ [][NextSplit]_vars

SpecSplitRuns ==
    /\ Init /\ [][NextSplit]_vars
    /\ WF_vars(SplitSingle) /\ WF_vars(SplitRanges) /\ WF_vars(SplitEvery)


\* The PDFWebWorker and its Workers; and the same with every Worker that
\* runs answering, sooner or later, each task it has received
NextWebWorker ==
    \/ Initialize \/ PostTask \/ WorkerInit \/ WorkerAnswers \/ WorkerRepeats
    \/ WorkerRaises \/ Terminate

SpecWebWorker == Init /\ [][NextWebWorker]_vars

SpecWebWorkerAnswers ==
    /\ Init /\ [][NextWebWorker]_vars
    /\ WF_vars(WorkerInit) /\ WF_vars(WorkerAnswers)


\* Writing a document to a stream
NextWriter == AddPage \/ WriteToStream \/ WriteCallback \/ NextTick

SpecWriter == Init /\ [][NextWriter]_vars


\* Outline nodes and their children
NextOutline == NewOutline \/ AddChild \/ RemoveChild

SpecOutline == Init /\ [][NextOutline]_vars


(***************************************************************************)
(* What the claims speak of.                                               *)
(***************************************************************************)
\* The options ask for encryption / name no usable owner password.
AsksEncryption(options) == "encrypt" \in DOMAIN options /\ options.encrypt = TRUE
NoOwnerPassword(options) ==
    "ownerPassword" \notin DOMAIN options \/ options.ownerPassword = ""

\* keyword occurs in buffer after the trailer keyword.
InTrailer(buffer, keyword) ==
    \E t \in Occurrences(buffer, kwTrailer), a \in Occurrences(buffer, keyword) : a > t

\* The trailer of buffer carries the standard security handler dictionary.
HasSecurityHandler(buffer) ==
    /\ InTrailer(buffer, kwEncrypt)
    /\ InTrailer(buffer, kwFilterStandard)
    /\ InTrailer(buffer, kwV) /\ InTrailer(buffer, kwR) /\ InTrailer(buffer, kwO)
    /\ InTrailer(buffer, kwU) /\ InTrailer(buffer, kwP)
    /\ InTrailer(buffer, kwEncryptMetadata)

IsEOL(byte) == byte = 10 \/ byte = 13

\* buffer begins with the line "%PDF-<digit>.<digit>".
BeginsWithHeader(buffer) ==
    /\ Len(buffer) >= 9
    /\ SubSeq(buffer, 1, 5) = kwSignature
    /\ IsDigit(buffer[6]) /\ buffer[7] = 46 /\ IsDigit(buffer[8])
    /\ IsEOL(buffer[9])

\* buffer without the end-of-line marker (LF, CR or CR LF) that ends it, if any
WithoutFinalEOL(buffer) ==
    LET n == Len(buffer)
    IN  IF n >= 2 /\ buffer[n - 1] = 13 /\ buffer[n] = 10 THEN SubSeq(buffer, 1, n - 2)
        ELSE IF n >= 1 /\ IsEOL(buffer[n]) THEN SubSeq(buffer, 1, n - 1)
        ELSE buffer

\* The last line of buffer is "%%EOF".
EndsWithEOF(buffer) ==
    LET body == WithoutFinalEOL(buffer)
    IN  /\ OccursAt(body, kwEOF, Len(body) - Len(kwEOF))
        /\ (Len(body) = Len(kwEOF) \/ IsEOL(body[Len(body) - Len(kwEOF)]))

\* The offset of the xref keyword that opens the cross-reference table of
\* buffer (the keyword at the start of a line), -1 when there is none.
XrefAt(buffer) ==
    LET at == {a \in Occurrences(buffer, kwXref) : a = 0 \/ IsEOL(buffer[a])}
    IN  IF at = {} THEN -1 ELSE Max(at)

\* The entries of a cross-reference subsection from offset at on: the entry of
\* object number num first, left entries in all.  An entry is ten digits, a
\* space, five digits, a space, n or f, and an end-of-line of one or two bytes.
RECURSIVE XrefEntries(_, _, _, _)
XrefEntries(buffer, at, num, left) ==
    IF left = 0 \/ at + 18 > Len(buffer)
      THEN {}
      ELSE LET eol == IF at + 19 < Len(buffer) /\ buffer[at + 19] \in {32, 13}
                        /\ IsEOL(buffer[at + 20])
                        THEN 2 ELSE 1
           IN  { [num    |-> num,
                  offset |-> Decimal(buffer, at, 10),
                  gen    |-> Decimal(buffer, at + 11, 5),
                  inUse  |-> buffer[at + 18] = 110] }
               \cup XrefEntries(buffer, at + 18 + eol, num + 1, left - 1)

\* The entries of the cross-reference table of buffer ("xref", a line
\* "<first> <count>", then the entries).
XrefTable(buffer) ==
    LET x      == XrefAt(buffer)
        f      == x + Len(kwXref) + 1
        fd     == DigitRun(buffer, f)
        c      == f + fd + 1
        cd     == DigitRun(buffer, c)
    IN  IF x < 0 THEN {}
        ELSE XrefEntries(buffer, c + cd + 1, Decimal(buffer, f, fd), Decimal(buffer, c, cd))

\* "<num> <gen> obj" begins at the offset at of buffer.
ObjectBeginsAt(buffer, num, gen, at) ==
    OccursAt(buffer, DecimalBytes(num) \o <<32>> \o DecimalBytes(gen) \o kwObj, at)

\* The offset written after the last startxref keyword of buffer.
StartxrefOffset(buffer) ==
    LET at == Max(Occurrences(buffer, kwStartxref)) + Len(kwStartxref) + 1
    IN  Decimal(buffer, at, DigitRun(buffer, at))

\* buffer begins with "%PDF-1.7" and its startxref offset does not point at
\* the xref keyword.
kwHeader17 == << 37, 80, 68, 70, 45, 49, 46, 55 >>
HasCorruptStartxref(buffer) ==
    /\ OccursAt(buffer, kwHeader17, 0)
    /\ Occurrences(buffer, kwStartxref) # {}
    /\ ~OccursAt(buffer, kwXref, StartxrefOffset(buffer))

(***************************************************************************)
(* The claims.                                                             *)
(***************************************************************************)
\* C1: parsing the bytes toBuffer returns for the document yields a document
\* with the same page count, the same pages in the same order and the same
\* metadata.  (SpecLoad)
C1_RoundTrip ==
    LET bytes == toBuffer(pages, metadata, Absent)
    IN  (/\ last.op \in {"parse", "loadPDFFromBuffer"}
         /\ ~bytes.threw
         /\ last.buffer = bytes.value)
        => /\ ~last.res.threw
           /\ Len(last.res.value.pages) = pageCount
           /\ last.res.value.pages = pages
           /\ last.res.value.metadata = metadata

\* C2: toBuffer asked to encrypt with no owner password, or an empty one,
\* throws a PDFError INVALID_PARAMETER and hands the caller no bytes, whatever
\* the user password and the document are.  (Spec)
C2_EncryptWithoutOwnerThrows ==
    [][(/\ last'.op = "toBuffer"
        /\ AsksEncryption(last'.options)
        /\ NoOwnerPassword(last'.options))
       => /\ last'.res.threw
          /\ last'.res.code = ErrorCodes.INVALID_PARAMETER
          /\ "value" \notin DOMAIN last'.res
          /\ saved' = saved]_vars

\* C2's case: encryption asked with a user password and an empty owner
\* password, on a document with pages, and the call threw.
C2_Witness ==
    /\ last.op = "toBuffer"
    /\ AsksEncryption(last.options)
    /\ "ownerPassword" \in DOMAIN last.options /\ last.options.ownerPassword = ""
    /\ "userPassword" \in DOMAIN last.options
    /\ pageCount > 0
    /\ last.res.threw

\* C3: the bytes toBuffer returns when asked to encrypt with an owner password
\* carry the standard security handler dictionary in the trailer, and differ
\* from the bytes it returns for the same document without encryption.  (Spec)
C3_EncryptedOutputCarriesHandler ==
    (/\ last.op = "toBuffer"
     /\ AsksEncryption(last.options)
     /\ ~NoOwnerPassword(last.options)
     /\ ~last.res.threw)
    => /\ HasSecurityHandler(last.res.value)
       /\ last.res.value
            # toBuffer(pages, metadata, Spread(last.options, [encrypt |-> FALSE])).value

\* C4: encryptPDF with options that hold no ownerPassword throws a PDFError
\* INVALID_PARAMETER and leaves the document's metadata as it was.
\* (SpecSecurity)
C4_EncryptPDFWithoutOwnerThrows ==
    (/\ last.op = "encryptPDF"
     /\ "ownerPassword" \notin DOMAIN last.options)
    => /\ last.res.threw
       /\ last.res.code = ErrorCodes.INVALID_PARAMETER
       /\ metadata = last.before

\* The document's metadata say it is encrypted.
IsEncrypted(m) == "encrypted" \in DOMAIN m /\ m.encrypted = TRUE

\* C5: decryptPDF on a document encryptPDF encrypted, with a password that is
\* neither the user nor the owner password of that encryption, throws and
\* leaves the document encrypted.  (SpecSecurity)
C5_DecryptNeedsPassword ==
    (/\ last.op = "decryptPDF"
     /\ security # Null
     /\ IsEncrypted(last.before)
     /\ last.password \notin {security._userPassword, security._ownerPassword})
    => /\ last.res.threw
       /\ IsEncrypted(metadata)

\* C6: PDFParser.parse throws a PDFError INVALID_PDF, and builds no document,
\* on every buffer shorter than five bytes or whose first five bytes are not
\* "%PDF-"; on a buffer that begins with "%PDF-" it never throws INVALID_PDF.
\* (SpecLoad)
C6_ParseRejectsExactlyNonPDF ==
    last.op = "parse"
    => IF Len(last.buffer) < 5 \/ SubSeq(last.buffer, 1, 5) # kwSignature
         THEN /\ last.res.threw
              /\ last.res.code = ErrorCodes.INVALID_PDF
         ELSE ~(last.res.threw /\ last.res.code = ErrorCodes.INVALID_PDF)

\* C7: repairPDF on a buffer that begins with "%PDF-1.7" and whose startxref
\* offset is corrupt does not throw and returns a document, of zero or more
\* pages, with at least one warning or error.  (SpecRepair)
C7_RepairYieldsDocumentAndDiagnostics ==
    (/\ last.op = "repairPDF"
     /\ HasCorruptStartxref(last.buffer))
    => /\ ~last.res.threw
       /\ "document" \in DOMAIN last.res.value
       /\ Len(last.res.value.document.pages) >= 0
       /\ Len(last.res.value.result.warnings) + Len(last.res.value.result.errors) > 0

\* C7's case: the file with the startxref offset 999 was repaired and came
\* back as a document with diagnostics.
C7_Witness ==
    /\ last.op = "repairPDF"
    /\ last.buffer = bufDamaged
    /\ HasCorruptStartxref(last.buffer)
    /\ "document" \in DOMAIN last.res.value
    /\ Len(last.res.value.result.warnings) > 0

\* C8: getPage(index) returns the page at position index when
\* 0 <= index < pageCount and null for every other index, and changes
\* nothing of the document.  (Spec)
C8_GetPageInRangeOrNull ==
    [][last'.op = "getPage"
       => /\ IF last'.index >= 0 /\ last'.index < Len(pages)
               THEN last'.ret = pages[last'.index + 1]
               ELSE last'.ret = Null
          /\ pages' = pages
          /\ metadata' = metadata]_vars

\* C8's case: getPage(1) on a document of two different pages returned the
\* second page.
C8_Witness ==
    /\ last.op = "getPage"
    /\ last.index = 1
    /\ Len(pages) = 2
    /\ pages[1] # pages[2]
    /\ last.ret = pages[2]

\* C9: the bytes toBuffer returns begin with the header line "%PDF-<version>"
\* and end with the line "%%EOF" (the end-of-line marker that closes that
\* line is the last byte), for every document and every options object with
\* which it does not throw.  (Spec)
C9_OutputHasHeaderAndEOF ==
    (last.op = "toBuffer" /\ ~last.res.threw)
    => /\ BeginsWithHeader(last.res.value)
       /\ EndsWithEOF(last.res.value)

\* C9's case: toBuffer returned bytes for an encrypted save of a document
\* with pages and metadata.
C9_Witness ==
    /\ last.op = "toBuffer"
    /\ ~last.res.threw
    /\ AsksEncryption(last.options)
    /\ pageCount > 0
    /\ metadata # Absent
    /\ EndsWithEOF(last.res.value)

\* C10: in the bytes toBuffer returns, every in-use entry of the
\* cross-reference table holds the offset at which "<num> <gen> obj" of its
\* object begins.  (Spec)
C10_XrefOffsetsExact ==
    (last.op = "toBuffer" /\ ~last.res.threw)
    => /\ XrefTable(last.res.value) # {}
       /\ \A e \in XrefTable(last.res.value) :
             e.inUse => ObjectBeginsAt(last.res.value, e.num, e.gen, e.offset)

\* "stream", "endstream", "/Length "
kwStream == << 115, 116, 114, 101, 97, 109 >>
kwEndstream == << 101, 110, 100, 115, 116, 114, 101, 97, 109 >>
kwLength == << 47, 76, 101, 110, 103, 116, 104, 32 >>

\* The stream objects of buffer: for every stream keyword that opens a line,
\* the number its dictionary gives for /Length and the number of bytes
\* between the end-of-line that closes the keyword and the next endstream.
StreamObjects(buffer) ==
    { [ declared |-> LET l == Max({a \in Occurrences(buffer, kwLength) : a < s})
                             + Len(kwLength)
                     IN  Decimal(buffer, l, DigitRun(buffer, l)),
        emitted  |-> LET data == IF buffer[s + 7] = 13 THEN s + 8 ELSE s + 7
                     IN  Min({e \in Occurrences(buffer, kwEndstream) : e > s}) - data,
        eol      |-> LET e == Min({e \in Occurrences(buffer, kwEndstream) : e > s})
                     IN  IF buffer[e] = 10 /\ buffer[e - 1] = 13 THEN 2
                         ELSE IF IsEOL(buffer[e]) THEN 1 ELSE 0 ]
      : s \in {a \in Occurrences(buffer, kwStream) :
                  /\ a > 0 /\ IsEOL(buffer[a])
                  /\ {b \in Occurrences(buffer, kwLength) : b < a} # {}
                  /\ {e \in Occurrences(buffer, kwEndstream) : e > a} # {}} }

\* C11: in the bytes toBuffer returns, the /Length of every stream object is
\* the number of bytes emitted between its stream and endstream keywords
\* (counted with or without the end-of-line marker that precedes endstream).
\* (Spec)
C11_StreamLengthExact ==
    (last.op = "toBuffer" /\ ~last.res.threw)
    => /\ StreamObjects(last.res.value) # {}
       /\ \A st \in StreamObjects(last.res.value) :
             st.declared \in {st.emitted, st.emitted - st.eol}

\* The line that follows the header line of buffer is a comment that holds a
\* byte of value 128 or more.
HasBinaryMarker(buffer) ==
    /\ Len(buffer) > 10
    /\ IsEOL(buffer[9])
    /\ buffer[10] = 37
    /\ \E i \in 11..Len(buffer) :
          /\ buffer[i] >= 128
          /\ \A j \in 10..i : ~IsEOL(buffer[j])

\* C12: in the bytes toBuffer returns, the header line is immediately
\* followed by a comment line that holds at least one byte of value 128 or
\* more.  (Spec)
C12_BinaryMarkerFollowsHeader ==
    (last.op = "toBuffer" /\ ~last.res.threw)
    => /\ BeginsWithHeader(last.res.value)
       /\ HasBinaryMarker(last.res.value)

\* The plain sequence s with x put at the 0-based position i, without its
\* element at position i, and with x in place of that element.
SeqInsert(s, i, x) ==
    [k \in 1..(Len(s) + 1) |-> IF k <= i THEN s[k] ELSE IF k = i + 1 THEN x ELSE s[k - 1]]
SeqDelete(s, i) == [k \in 1..(Len(s) - 1) |-> IF k <= i THEN s[k] ELSE s[k + 1]]
SeqOverwrite(s, i, x) == [k \in 1..Len(s) |-> IF k = i + 1 THEN x ELSE s[k]]

\* C18: the page operations act on the page list as on a plain sequence:
\* addPage appends; insertPage puts the page at position i and returns true
\* when 0 <= i <= length; removePage deletes and replacePage overwrites
\* position i, returning the page that was there, when 0 <= i < length; every
\* out-of-range call returns false (insertPage) or null and leaves the page
\* list, and so pageCount, as it was.  (SpecPages)
C18_PageListIsSequence ==
    [][LET i == last'.index
           n == Len(pages)
       IN  /\ last'.op = "addPage"
                => /\ Len(pages') = n + 1
                   /\ pages' = Append(pages, pages'[n + 1])
           /\ last'.op = "insertPage"
                => IF 0 <= i /\ i <= n
                     THEN pages' = SeqInsert(pages, i, last'.page) /\ last'.ret = TRUE
                     ELSE pages' = pages /\ last'.ret = FALSE
           /\ last'.op = "removePage"
                => IF 0 <= i /\ i < n
                     THEN pages' = SeqDelete(pages, i) /\ last'.ret = pages[i + 1]
                     ELSE pages' = pages /\ last'.ret = Null
           /\ last'.op = "replacePage"
                => IF 0 <= i /\ i < n
                     THEN pages' = SeqOverwrite(pages, i, last'.page)
                          /\ last'.ret = pages[i + 1]
                     ELSE pages' = pages /\ last'.ret = Null]_vars

\* C18's case: a page was inserted at the position after the last page of a
\* document that had a page, and the call returned true.
C18_Witness ==
    /\ last.op = "insertPage"
    /\ last.index = Len(pages) - 1
    /\ last.index > 0
    /\ last.ret = TRUE
    /\ pages[Len(pages)] = last.page
    /\ pages[1] # last.page

\* C19: after setRotation(r), for any integer r, the rotation of the page is
\* one of 0, 90, 180 and 270.  (SpecRotation)
C19_RotationNormalized ==
    [][last'.op = "setRotation"
       => pages'[last'.index + 1].rotation \in {0, 90, 180, 270}]_vars

\* C20: rotatePages without pageIndices, or with an empty pageIndices, turns
\* every page: each rotation becomes (old + rotation) mod 360; with a
\* non-empty pageIndices the pages that are not listed keep their rotation,
\* and no call changes anything else of a page or the number of pages.
\* (SpecRotatePages)
C20_RotatePagesAllOrListed ==
    [][last'.op = "rotatePages"
       => LET args == last'.args
              all  == "pageIndices" \notin DOMAIN args \/ args.pageIndices = <<>>
          IN  /\ Len(pages') = Len(pages)
              /\ \A k \in 1..Len(pages) :
                    /\ pages' [k] = [pages[k] EXCEPT !.rotation = pages'[k].rotation]
                    /\ all => pages'[k].rotation = (pages[k].rotation + last'.rotation) % 360
                    /\ (~all /\ \A j \in 1..Len(args.pageIndices) : args.pageIndices[j] # k - 1)
                         => pages'[k].rotation = pages[k].rotation]_vars

\* C13: the document mergePDFs returns shares no object with a document it
\* was made from: no page, array, content item, annotation, outline or form
\* reachable from the result is reachable from a source.  (SpecMerge)
C13_MergeSharesNothing ==
    (last.op = "mergePDFs" /\ ~last.res.threw)
    => \A i \in 1..Len(last.documents) :
          Reachable(heap, last.res.value) \cap Reachable(heap, last.documents[i]) = {}

\* What the accessors of the object of reference ref return, by value, and
\* what pageCount and getPage return of a document.
Seen(h, ref) ==
    CASE h[ref].kind = "PDFDocument" ->
           [ metadata  |-> LET r == get_metadata(h, ref) IN r.heap[r.ret].fields,
             getPages  |-> LET r == getPages(h, ref) IN r.heap[r.ret].items,
             pageCount |-> Len(h[h[ref]._pages].items),
             getPage   |-> [i \in 1..Len(h[h[ref]._pages].items) |-> h[h[ref]._pages].items[i]] ]
      [] h[ref].kind = "PDFPage" ->
           [ content     |-> LET r == get_content(h, ref) IN r.heap[r.ret].items,
             annotations |-> LET r == get_annotations(h, ref) IN r.heap[r.ret].items ]
      [] h[ref].kind = "PDFForm" ->
           [ fields |-> LET r == get_fields(h, ref) IN r.heap[r.ret].items ]
      [] h[ref].kind = "PDFOutline" ->
           [ children |-> LET r == get_children(h, ref) IN r.heap[r.ret].items ]
      [] OTHER -> Absent

\* C14: when a caller adds, removes or reassigns an entry of the value an
\* accessor returned (PDFDocument.metadata, getPages(), PDFPage.content,
\* PDFPage.annotations, PDFForm.fields, PDFOutline.children), every accessor
\* of every object, and pageCount and getPage, return afterwards what they
\* returned before.  (SpecAccessors)
C14_AccessorsReturnCopies ==
    [][last'.op = "change"
       => /\ Len(heap') = Len(heap)
          /\ \A ref \in Owned(heap) : Seen(heap', ref) = Seen(heap, ref)]_vars

\* C14's case: a caller emptied the array getPages() returned for a document
\* with a page, and the document still has the page.
C14_Witness ==
    /\ last.op = "change"
    /\ last.accessor = "getPages"
    /\ heap[last.ret].items = <<>>
    /\ Seen(heap, last.target).pageCount = 1
    /\ Len(Seen(heap, last.target).getPages) = 1

\* C15: renderPagesParallel returns one buffer for every page index asked
\* for, in the order in which the indices were asked for: the i-th buffer is
\* the rendering of page pageIndices[i], however the pages were dealt to the
\* workers and in whatever order the workers finished.  (SpecWorker)
C15_BuffersInRequestOrder ==
    (last.op = "renderPagesParallel" /\ ~last.res.threw)
    => /\ Len(last.res.value) = Len(last.pageIndices)
       /\ \A i \in 1..Len(last.pageIndices) :
             LET page == pages[last.pageIndices[i] + 1]
             IN  last.res.value[i] =
                   [image |-> [width |-> page.width, height |-> page.height,
                               rotation |-> page.rotation, content |-> page.content]]

\* C16: once abort() has been called, no further page load is started, and
\* the result of a page load that was under way is discarded: its index is
\* never added to the loaded pages.  (SpecLoader)
C16_AbortStopsPageLoads ==
    [][loader._aborted
       => /\ DOMAIN loader'._pagePromises \subseteq DOMAIN loader._pagePromises
          /\ loader'._loadedPages \subseteq loader._loadedPages]_vars

\* The number of bytes of the first k of chunks.
RECURSIVE BytesOf(_, _)
BytesOf(chunks, k) == IF k = 0 THEN 0 ELSE BytesOf(chunks, k - 1) + Len(chunks[k])

\* The bytes of chunks, one chunk after the other.
RECURSIVE Joined(_)
Joined(chunks) ==
    IF chunks = <<>> THEN <<>>
    ELSE Joined(SubSeq(chunks, 1, Len(chunks) - 1)) \o chunks[Len(chunks)]

\* C17: parseStream (loadPDFFromStream) buffers the whole stream before it
\* parses: nothing is handed to the parser while chunks may still arrive; the
\* parser is called at most once, when the stream has ended, with the bytes
\* of all chunks in the order in which they arrived; and onProgress has been
\* told, after each chunk, the number of bytes read so far.  (SpecStream)
C17_StreamBufferedBeforeParse ==
    stream.phase # "idle"
    => /\ Len(stream.parsed) <= 1
       /\ stream.phase # "ended" => stream.parsed = <<>>
       /\ stream.phase = "ended"
            => /\ stream.pending = <<>>
               /\ stream.parsed = <<Joined(stream.delivered)>>
       /\ "onProgress" \in DOMAIN stream.options
            => stream.progress =
                 [k \in 1..Len(stream.delivered) |-> BytesOf(stream.delivered, k)]

\* C17's case: a PDF file came in three chunks, progress was reported after
\* each, and the one parse at the end returned a document.
C17_Witness ==
    /\ stream.phase = "ended"
    /\ Len(stream.delivered) = 3
    /\ stream.delivered[1] # stream.delivered[2]
    /\ Len(stream.progress) = 3
    /\ stream.parsed = <<bufIntact>>
    /\ last.op = "loadPDFFromStream"
    /\ ~last.res.threw


(***************************************************************************)
(* Merging: the pages of the merged document.                              *)
(***************************************************************************)
\* The page list of a document, and what a page is to a reader: its size,
\* its rotation and the items of its content.
PagesOf(h, document) == h[h[document]._pages].items
PageView(h, page) ==
    [ width |-> h[page]._width, height |-> h[page]._height,
      rotation |-> h[page]._rotation, content |-> h[h[page]._content].items ]
PageViews(h, document) ==
    [i \in 1..Len(PagesOf(h, document)) |-> PageView(h, PagesOf(h, document)[i])]

\* The pages of the documents of a list, document after document and page
\* after page.
RECURSIVE SourcePages(_, _)
SourcePages(h, documents) ==
    IF documents = <<>> THEN <<>>
    ELSE PageViews(h, Head(documents)) \o SourcePages(h, Tail(documents))

RECURSIVE AllPages(_)
AllPages(documents) ==
    IF documents = <<>> THEN <<>> ELSE Head(documents).pages \o AllPages(Tail(documents))

SplitEveryGoesOn ==
    [][ (split.phase = "every" /\ split.options.pageCount < 0 /\ Len(pages) > 0)
        => /\ split'.phase = "every"
           /\ split'.start < split.start
           /\ split'.start < Len(pages)
           /\ Len(split'.result) = Len(split.result) + 1 ]_vars


(***************************************************************************)
(* PDFWebWorker: tasks and their answers.                                  *)
(***************************************************************************)
\* C24: the task ids of one PDFWebWorker all differ; a promise is settled
\* only by a message that carries the id of its task, and by one such
\* message at most; once it is settled neither map holds the id; and the two
\* maps hold the same ids at all times.
C24_AnswersMatchTasks ==
    LET promises == webWorker.promises
    IN  /\ \A p, q \in 1..Len(promises) : p # q => promises[p].taskId # promises[q].taskId
        /\ DOMAIN webWorker._callbacks = DOMAIN webWorker._errorCallbacks
        /\ \A p \in 1..Len(promises) :
              /\ Len(promises[p].by) <= 1
              /\ \A k \in 1..Len(promises[p].by) : promises[p].by[k] = promises[p].taskId
              /\ promises[p].state = "pending" <=> promises[p].by = <<>>
              /\ promises[p].state # "pending" =>
                    /\ promises[p].taskId \notin DOMAIN webWorker._callbacks
                    /\ promises[p].taskId \notin DOMAIN webWorker._errorCallbacks

\* Two tasks are settled, the second before the first answer could have
\* come any other way than out of order: the first task rejected, the second
\* resolved, and a Worker has sent an answer a second time.
C24_Witness ==
    /\ Len(webWorker.promises) = 2
    /\ webWorker.promises[1].state = "rejected"
    /\ webWorker.promises[2].state = "resolved"
    /\ \E i \in 1..Len(webWorker.workers) : webWorker.workers[i].repeats = 1

\* C25: every task that has been posted is settled in the end, whatever
\* happens while it is pending.
C25_TasksSettle ==
    \A p \in 1..MaxTasks :
        (Len(webWorker.promises) >= p /\ webWorker.promises[p].state = "pending")
          ~> (Len(webWorker.promises) >= p /\ webWorker.promises[p].state # "pending")


(***************************************************************************)
(* The progressive loader: one load of a page at a time.                   *)
(***************************************************************************)
\* The loads under way for the page of index i.
PendingFor(l, i) == {id \in Pending(l) : l.loads[id].pageIndex = i}

\* C26: at most one load of the content of a page is under way at any time;
\* a loadPage(i) that comes while one is under way starts none and gets the
\* promise of that very load; a load that fails leaves no promise behind for
\* its index; and a loadPage(i) that comes when no load of page i is under
\* way and the page is not loaded starts a new one.
C26_OneLoadPerPage ==
    [][ /\ \A i \in 0..MaxPages : Cardinality(PendingFor(loader', i)) <= 1
        /\ (last'.op = "loadPage" /\ loader._document # Null /\ last'.pageIndex >= 0) =>
              IF PendingFor(loader, last'.pageIndex) # {}
                THEN /\ ~last'.res.threw
                     /\ {last'.res.promise} = PendingFor(loader, last'.pageIndex)
                     /\ loader'.loads = loader.loads
              ELSE IF last'.pageIndex \in loader._loadedPages
                THEN loader'.loads = loader.loads
              ELSE /\ ~last'.res.threw
                   /\ Len(loader'.loads) = Len(loader.loads) + 1
                   /\ PendingFor(loader', last'.pageIndex) = {last'.res.promise}
        /\ last'.op = "pageLoadFailed" =>
              /\ last'.pageIndex \notin DOMAIN loader'._pagePromises
              /\ PendingFor(loader', last'.pageIndex) = {} ]_vars

\* A load of page 0 has failed, a second one has been started after it, and
\* a caller that came while the second was under way has got its promise.
C26_Witness ==
    /\ Len(loader.loads) = 2
    /\ loader.loads[1] = [pageIndex |-> 0, state |-> "rejected"]
    /\ loader.loads[2] = [pageIndex |-> 0, state |-> "pending"]
    /\ last.op = "loadPage" /\ last.pageIndex = 0
    /\ ~last.res.threw /\ ~last.res.started /\ last.res.promise = 2


(***************************************************************************)
(* writeToStream: the chunks it writes.                                    *)
(***************************************************************************)
\* C27: the chunks handed to stream.write are, one after the other, the
\* bytes of the Buffer from its start, all of them once the promise has
\* resolved; no chunk is longer than the chunk size; a chunk is written only
\* when the callback of the one before it has reported no error; stream.end
\* is called once, after the callback of the last chunk, and only then does
\* the promise resolve; and when a callback reports an error no chunk is
\* written after it, the stream is not ended and the promise is rejected.
C27_ChunksInOrder ==
    (writer.phase # "idle" /\ writer.buffer # <<>>) =>
       LET chunks == writer.chunks
           acks   == writer.acks
           bytes  == concat(chunks)
       IN  /\ Len(bytes) <= Len(writer.buffer)
           /\ bytes = SubSeq(writer.buffer, 1, Len(bytes))
           /\ \A k \in 1..Len(chunks) : Len(chunks[k]) <= writer.chunkSize
           /\ Len(acks) \in {Len(chunks) - 1, Len(chunks)}
           /\ \A k \in 1..(Len(chunks) - 1) : acks[k] = "ok"
           /\ writer.ended <= 1
           /\ writer.ended = 1 <=> writer.promise = "resolved"
           /\ writer.ended = 1 =>
                 /\ bytes = writer.buffer
                 /\ Len(acks) = Len(chunks)
                 /\ \A k \in 1..Len(acks) : acks[k] = "ok"
           /\ (\E k \in 1..Len(acks) : acks[k] = "error") =>
                 /\ Len(chunks) = Len(acks)
                 /\ acks[Len(acks)] = "error"
                 /\ writer.ended = 0
                 /\ writer.promise = "rejected"
                 /\ writer.phase = "done"

\* A Buffer has gone out in three chunks and the stream has been ended.
C27_Witness ==
    /\ writer.phase = "done"
    /\ Len(writer.chunks) = 3
    /\ writer.chunkSize = 200
    /\ Len(writer.chunks[3]) = Len(dummyPDF) - 400
    /\ writer.ended = 1
    /\ writer.promise = "resolved"


(***************************************************************************)
(* The outline tree: parents and children.                                 *)
(***************************************************************************)
\* The places at which child stands among the children of outline.
PlacesOf(h, outline, child) ==
    {k \in 1..Len(h[h[outline]._children].items) : h[h[outline]._children].items[k] = child}

\* C28: for all outline nodes p and c, the parent of c is p exactly when c
\* stands among the children of p, and then it stands there once.
C28_ParentMatchesChildren ==
    \A p \in Outlines(heap), c \in Outlines(heap) :
        /\ heap[c]._parent = p <=> PlacesOf(heap, p, c) # {}
        /\ Cardinality(PlacesOf(heap, p, c)) <= 1

=============================================================================
